---------------------------- MODULE Spec2Model ----------------------------
(***************************************************************************)
(* A model of the reconciliation engine of DataToolKit                     *)
(* (src/src/recon_engine.py, class ReconEngine): the table store, the      *)
(* amount and date normalizers and the five-way reconciliation.            *)
(*                                                                         *)
(* The engine keeps its tables in an in-memory DuckDB connection.  A table *)
(* is modelled as an ordered list of typed columns and a list of           *)
(* positional rows; a cell is NULL, a number or a text.  A text is a       *)
(* sequence of one-character strings, so that the SQL string functions the *)
(* engine uses (TRIM, LIKE, regexp_replace, REPLACE, SPLIT_PART, LPAD,     *)
(* TRY_CAST) are computed character by character.  A DOUBLE is modelled in *)
(* fixed point: the integer n stands for n / 10^FracDigits.                *)
(***************************************************************************)
EXTENDS Integers, Sequences, FiniteSets, TLC

VARIABLES
    tables,            \* self.conn: table name -> table (exists = FALSE: no such table)
    source_a_loaded,   \* self._source_a_loaded
    source_b_loaded,   \* self._source_b_loaded
    last,              \* the last engine call: its arguments and its outcome
    app,               \* a ReconApp (app.py): its fields, its worker threads, its engines
    tool,              \* a BaseTool (base_tool.py): its run_threaded calls
    controller,        \* the DataToolkitApp (main.py): its frame, its shared engine
    disk               \* the files written by exports: path -> table

engineVars == <<tables, source_a_loaded, source_b_loaded, last>>
uiVars == <<app, tool, controller, disk>>
vars == <<tables, source_a_loaded, source_b_loaded, last, app, tool, controller, disk>>

(***************************************************************************)
(* Bounds of the model.                                                    *)
(***************************************************************************)
FracDigits == 5       \* decimal places a modelled DOUBLE keeps
MaxAmountLen == 3     \* longest enumerated raw amount text
MaxDateLen == 5       \* longest enumerated raw date text
MaxCols == 3          \* most columns of an enumerated table of named columns
MaxPatterns == 2      \* most patterns of an enumerated pattern list
MaxTables == 2        \* most tables of an enumerated list of tables to combine
MaxAggRows == 3       \* most rows of an enumerated table to aggregate
MaxRows == 2          \* most rows of an enumerated source table
MaxRuns == 2          \* most reconciliation runs started in a ReconApp
MaxThreads == 2       \* most run_threaded calls of a tool
MaxFrames == 3        \* most frames the controller shows after the first

(***************************************************************************)
(* Cells.                                                                  *)
(***************************************************************************)
NULL == [t |-> "null", v |-> 0]
Num(n) == [t |-> "num", v |-> n]
Text(s) == [t |-> "text", v |-> s]
\* A BOOLEAN cell: v is 1 for TRUE and 0 for FALSE.
Bool(b) == [t |-> "bool", v |-> IF b THEN 1 ELSE 0]
IsNull(x) == x.t = "null"

RECURSIVE Pow10(_)
Pow10(n) == IF n = 0 THEN 1 ELSE 10 * Pow10(n - 1)

\* The fixed-point image of the decimal m / 10^d (d <= FracDigits).
Dec(m, d) == m * Pow10(FracDigits - d)

Abs(n) == IF n < 0 THEN -n ELSE n

(***************************************************************************)
(* Characters and the SQL string functions.                                *)
(***************************************************************************)
Digits == {"0", "1", "2", "3", "4", "5", "6", "7", "8", "9"}

DigitVal(c) ==
    CASE c = "0" -> 0 [] c = "1" -> 1 [] c = "2" -> 2 [] c = "3" -> 3
      [] c = "4" -> 4 [] c = "5" -> 5 [] c = "6" -> 6 [] c = "7" -> 7
      [] c = "8" -> 8 [] c = "9" -> 9

RECURSIVE DigitsToNat(_)
DigitsToNat(s) ==
    IF s = <<>> THEN 0
    ELSE 10 * DigitsToNat(SubSeq(s, 1, Len(s) - 1)) + DigitVal(s[Len(s)])

\* Length of the longest prefix of s whose characters are all in set.
RECURSIVE PrefixRun(_, _)
PrefixRun(s, set) ==
    IF s = <<>> \/ s[1] \notin set THEN 0 ELSE 1 + PrefixRun(Tail(s), set)

\* Length of the longest suffix of s whose characters are all in set.
RECURSIVE SuffixRun(_, _)
SuffixRun(s, set) ==
    IF s = <<>> \/ s[Len(s)] \notin set THEN 0
    ELSE 1 + SuffixRun(SubSeq(s, 1, Len(s) - 1), set)

\* TRIM(BOTH chars FROM s): every leading and trailing character of set goes.
TrimBoth(s, set) ==
    LET a == PrefixRun(s, set)
    IN  IF a = Len(s) THEN <<>> ELSE SubSeq(s, a + 1, Len(s) - SuffixRun(s, set))

\* TRIM(s): spaces on both sides go.
Trim(s) == TrimBoth(s, {" "})

\* s LIKE '(%)'
LikeParenthesized(s) == Len(s) >= 2 /\ s[1] = "(" /\ s[Len(s)] = ")"

AmountKeptChars == Digits \cup {".", ",", "-"}

\* regexp_replace(s, '[^0-9.,-]', '', 'g')
RegexpStripNonAmount(s) == SelectSeq(s, LAMBDA c : c \in AmountKeptChars)

\* The reading of the docstring's "European format: 1.234,56 -> 1234.56": in a
\* text with a comma the points are the separators and the comma the decimal
\* point.
RemoveCommas_European(s) ==
    IF \E i \in 1..Len(s) : s[i] = ","
    THEN LET noPoints == SelectSeq(s, LAMBDA c : c # ".")
         IN  [i \in 1..Len(noPoints) |-> IF noPoints[i] = "," THEN "." ELSE noPoints[i]]
    ELSE s

\* REPLACE(s, ',', '')
RemoveCommas(s) == SelectSeq(s, LAMBDA c : c # ",")

\* A cast that parses the longest numeric prefix and ignores what is left over.
TryCastDouble_Prefix(s) ==
    LET neg == s # <<>> /\ s[1] = "-"
        body == IF neg THEN Tail(s) ELSE s
        intLen == PrefixRun(body, Digits)
        rest == SubSeq(body, intLen + 1, Len(body))
        hasPoint == rest # <<>> /\ rest[1] = "."
        fracLen == IF hasPoint THEN PrefixRun(Tail(rest), Digits) ELSE 0
        frac == SubSeq(body, intLen + 2, intLen + 1 + fracLen)
        kept == IF fracLen > FracDigits THEN SubSeq(frac, 1, FracDigits) ELSE frac
        mag == Dec(DigitsToNat(SubSeq(body, 1, intLen)), 0)
               + Dec(DigitsToNat(kept), Len(kept))
    IN  IF intLen + fracLen = 0 THEN NULL ELSE Num(IF neg THEN -mag ELSE mag)

\* TRY_CAST(s AS DOUBLE) on a text of digits, '.' and '-': an optional leading
\* minus, digits, an optional point and digits, at least one digit in all, and
\* nothing left over; NULL otherwise.  Fraction digits beyond FracDigits are cut.
TryCastDouble(s) ==
    LET neg == s # <<>> /\ s[1] = "-"
        body == IF neg THEN Tail(s) ELSE s
        intLen == PrefixRun(body, Digits)
        rest == SubSeq(body, intLen + 1, Len(body))
        hasPoint == rest # <<>> /\ rest[1] = "."
        fracLen == IF hasPoint THEN PrefixRun(Tail(rest), Digits) ELSE 0
        consumed == intLen + (IF hasPoint THEN 1 + fracLen ELSE 0)
        frac == SubSeq(body, intLen + 2, intLen + 1 + fracLen)
        kept == IF fracLen > FracDigits THEN SubSeq(frac, 1, FracDigits) ELSE frac
        mag == Dec(DigitsToNat(SubSeq(body, 1, intLen)), 0)
               + Dec(DigitsToNat(kept), Len(kept))
    IN  IF intLen + fracLen = 0 \/ consumed # Len(body) THEN NULL
        ELSE Num(IF neg THEN -mag ELSE mag)

\* A parenthesized amount that keeps its sign.
Negate_KeepSign(x) == x

\* -1 * x
Negate(x) == IF IsNull(x) THEN NULL ELSE Num(-1 * x.v)

\* The CASE expression of clean_amount_column's UPDATE, for one cell of a
\* VARCHAR column.
CleanAmountValue(x) ==
    IF IsNull(x) THEN NULL
    ELSE IF LikeParenthesized(Trim(x.v))
         THEN Negate(TryCastDouble(RemoveCommas(RegexpStripNonAmount(
                  TrimBoth(Trim(x.v), {"(", ")"})))))
         ELSE TryCastDouble(RemoveCommas(RegexpStripNonAmount(x.v)))


\* s LIKE '____-__-__': ten characters, a hyphen fifth and eighth.
LikeIsoDate(s) == Len(s) = 10 /\ s[5] = "-" /\ s[8] = "-"

\* s LIKE '%/%/%': at least two slashes.
LikeTwoSlashes(s) == Len(SelectSeq(s, LAMBDA c : c = "/")) >= 2

\* Length of the longest prefix of s that holds no sep.
RECURSIVE FieldLen(_, _)
FieldLen(s, sep) ==
    IF s = <<>> \/ s[1] = sep THEN 0 ELSE 1 + FieldLen(Tail(s), sep)

\* SPLIT_PART(s, sep, n): the n-th field of s (from 1), '' when s has fewer.
RECURSIVE SplitPart(_, _, _)
SplitPart(s, sep, n) ==
    LET k == FieldLen(s, sep)
    IN  IF n = 1 THEN SubSeq(s, 1, k)
        ELSE IF k = Len(s) THEN <<>>
        ELSE SplitPart(SubSeq(s, k + 2, Len(s)), sep, n - 1)

\* TRY_CAST(s AS INTEGER) on a text of digits, '/' and '-': an optional leading
\* minus and at least one digit; NULL otherwise.
TryCastInteger(s) ==
    LET neg == s # <<>> /\ s[1] = "-"
        body == IF neg THEN Tail(s) ELSE s
    IN  IF body = <<>> \/ PrefixRun(body, Digits) # Len(body) THEN NULL
        ELSE Num(IF neg THEN -DigitsToNat(body) ELSE DigitsToNat(body))

\* LPAD(s, n, pad): s cut to its first n characters, or pad repeated on the left.
RECURSIVE LPad(_, _, _)
LPad(s, n, pad) ==
    IF Len(s) >= n THEN SubSeq(s, 1, n) ELSE LPad(<<pad>> \o s, n, pad)

\* x > n in SQL, as a WHEN condition: a NULL is not true.
SqlGreater(x, n) == ~IsNull(x) /\ x.v > n

\* A CASE expression that writes the parts of a slash date with slashes
\* between them.
CleanDateValue_Slashed(x) ==
    IF IsNull(x) THEN NULL
    ELSE IF LikeIsoDate(x.v) THEN x
    ELSE IF LikeTwoSlashes(x.v)
         THEN Text(SplitPart(x.v, "/", 3) \o <<"/">> \o SplitPart(x.v, "/", 2)
                      \o <<"/">> \o SplitPart(x.v, "/", 1))
    ELSE x

\* The CASE expression of clean_date_column's UPDATE, for one cell of a VARCHAR
\* column.
CleanDateValue(x) ==
    IF IsNull(x) THEN NULL
    ELSE IF LikeIsoDate(x.v) THEN x
    ELSE IF LikeTwoSlashes(x.v)
         THEN LET part1 == SplitPart(x.v, "/", 1)
                  part2 == SplitPart(x.v, "/", 2)
                  part3 == SplitPart(x.v, "/", 3)
              IN  IF SqlGreater(TryCastInteger(part1), 12)
                  THEN Text(part3 \o <<"-">> \o LPad(part2, 2, "0")
                                  \o <<"-">> \o LPad(part1, 2, "0"))
                  ELSE IF SqlGreater(TryCastInteger(part2), 12)
                  THEN Text(part3 \o <<"-">> \o LPad(part1, 2, "0")
                                  \o <<"-">> \o LPad(part2, 2, "0"))
                  ELSE Text(part3 \o <<"-">> \o LPad(part2, 2, "0")
                                  \o <<"-">> \o LPad(part1, 2, "0"))
    ELSE x

(***************************************************************************)
(* CAST(x AS VARCHAR).                                                     *)
(***************************************************************************)
DigitChar(d) ==
    CASE d = 0 -> "0" [] d = 1 -> "1" [] d = 2 -> "2" [] d = 3 -> "3"
      [] d = 4 -> "4" [] d = 5 -> "5" [] d = 6 -> "6" [] d = 7 -> "7"
      [] d = 8 -> "8" [] d = 9 -> "9"

RECURSIVE NatToDigits(_)
NatToDigits(n) ==
    IF n < 10 THEN <<DigitChar(n)>>
    ELSE NatToDigits(n \div 10) \o <<DigitChar(n % 10)>>

\* The fraction f / 10^FracDigits as digits, trailing zeros dropped, one kept.
FractionDigits(f) ==
    LET all == LPad(NatToDigits(f), FracDigits, "0")
        cut == Len(all) - SuffixRun(all, {"0"})
    IN  IF cut = 0 THEN <<"0">> ELSE SubSeq(all, 1, cut)

\* A BIGINT prints as its digits, a DOUBLE with a point: 100 as 100.0; a
\* BOOLEAN as true or false.
CastVarchar(x, type) ==
    IF IsNull(x) \/ x.t = "text" THEN x
    ELSE IF x.t = "bool"
    THEN Text(IF x.v = 1 THEN <<"t", "r", "u", "e">> ELSE <<"f", "a", "l", "s", "e">>)
    ELSE LET sign == IF x.v < 0 THEN <<"-">> ELSE <<>>
             whole == NatToDigits(Abs(x.v) \div Pow10(FracDigits))
         IN  IF type = "BIGINT" THEN Text(sign \o whole)
             ELSE Text(sign \o whole \o <<".">>
                       \o FractionDigits(Abs(x.v) % Pow10(FracDigits)))

(***************************************************************************)
(* Tables.                                                                 *)
(***************************************************************************)
NoTable == [exists |-> FALSE, cols |-> <<>>, types |-> <<>>, rows |-> <<>>]

MkTable(cols, types, rows) ==
    [exists |-> TRUE, cols |-> cols, types |-> types, rows |-> rows]

HasColumn(t, c) == \E i \in 1..Len(t.cols) : t.cols[i] = c

ColIndex(t, c) == CHOOSE i \in 1..Len(t.cols) : t.cols[i] = c

ColType(t, c) == t.types[ColIndex(t, c)]

Cell(t, i, c) == t.rows[i][ColIndex(t, c)]

\* The values of column c, top to bottom.
Column(t, c) == [i \in 1..Len(t.rows) |-> Cell(t, i, c)]

\* s without its k-th element.
RemoveAt(s, k) == SubSeq(s, 1, k - 1) \o SubSeq(s, k + 1, Len(s))

\* ALTER TABLE t ADD COLUMN IF NOT EXISTS c type: a last column of NULLs.
AddColumnIfNotExists(t, c, type) ==
    IF HasColumn(t, c) THEN t
    ELSE [t EXCEPT !.cols = Append(@, c), !.types = Append(@, type),
                   !.rows = [i \in 1..Len(@) |-> Append(@[i], NULL)]]

\* UPDATE t SET target = F(src), every row.
UpdateColumn(t, target, src, F(_)) ==
    [t EXCEPT !.rows = [i \in 1..Len(t.rows) |->
        [t.rows[i] EXCEPT ![ColIndex(t, target)] = F(t.rows[i][ColIndex(t, src)])]]]

\* ALTER TABLE t DROP COLUMN c
DropColumn(t, c) ==
    LET k == ColIndex(t, c)
    IN  [t EXCEPT !.cols = RemoveAt(@, k), !.types = RemoveAt(@, k),
                  !.rows = [i \in 1..Len(@) |-> RemoveAt(@[i], k)]]

\* ALTER TABLE t RENAME COLUMN old TO new
RenameColumn(t, old, new) == [t EXCEPT !.cols[ColIndex(t, old)] = new]

\* get_row_count
RowCount(t) == Len(t.rows)

(***************************************************************************)
(* The engine.                                                             *)
(***************************************************************************)
ResultNames == {"exact_matches", "matches_with_date_note", "amount_variances",
                "missing_in_b", "missing_in_a"}

TableNames ==
    {"source_a", "source_b", "input_data", "combined_data", "filtered_data",
     "aggregated"} \cup ResultNames

NoSummary == [exact_matches |-> 0, matches_with_date_note |-> 0,
              amount_variances |-> 0, missing_in_b |-> 0, missing_in_a |-> 0]

\* What one engine call leaves behind: its arguments, the exception it raised
\* ("none": it returned), the integer it returned, the ReconSummary it returned
\* and the table it worked on as it was before the call.
Call(op, table, column, tol, raised, ret, summary, before) ==
    [op |-> op, table |-> table, column |-> column, tol |-> tol,
     raised |-> raised, ret |-> ret, summary |-> summary, before |-> before]

NoCall == Call("init", "", "", 0, "none", 0, NoSummary, NoTable)

(***************************************************************************)
(* The applications around the engine, as their constructors leave them.   *)
(***************************************************************************)
\* self.result = None, and the ReconResult of a run: the run, and of its
\* config the output directory.
NoResult == [run |-> 0, output_dir |-> ""]

\* No export yet.
NoExport == [kind |-> "none", engine |-> 0, holds |-> 0, result |-> 0, shown |-> 0]

\* ReconApp.__init__: no engine, no result, an empty output directory field,
\* the Run button enabled, no result shown, no worker thread, nothing scheduled
\* for the main loop.  A run is named by its number; an engine by the run
\* whose worker created it (0: None); holds tells the run whose five result
\* tables the engine holds (0: it holds none), and config the output
\* directory of the config the worker of a run has made.
ReconAppInit ==
    [engine |-> 0, result |-> NoResult, output_dir_var |-> "",
     run_btn |-> "normal", shown |-> 0, runs |-> 0,
     process |-> [r \in 1..MaxRuns |-> "unstarted"],
     holds |-> [r \in 1..MaxRuns |-> 0],
     config |-> [r \in 1..MaxRuns |-> NoResult.output_dir],
     after |-> <<>>, exported |-> NoExport]

\* BaseTool.__init__: the progress bar hidden, no run_threaded call yet.  A
\* call has the callbacks it was given, a worker thread ("unstarted", "running",
\* then "returned" or "raised" as target_func ended) and the handlers the main
\* loop has run for it; after holds the callbacks scheduled with self.after.
BaseToolInit ==
    [progress |-> "hidden", started |-> 0,
     thread |-> [c \in 1..MaxThreads |-> "unstarted"],
     callbacks |-> [c \in 1..MaxThreads |-> [on_complete |-> FALSE, on_error |-> FALSE]],
     after |-> <<>>,
     handled |-> [c \in 1..MaxThreads |-> <<>>]]

\* DataToolkitApp.__init__: no shared engine (self._engine = None, 0 here),
\* the home screen shown.  Engines and tool frames are named by their number
\* in the order of their creation; open holds the engines created and not
\* closed, loaded the tool frames that loaded a table into the shared engine,
\* and before the number of engines created when the last tool frame was.
ControllerInit ==
    [engine |-> 0, created |-> 0, open |-> {}, loaded |-> {},
     current_frame |-> "home", frame |-> 0, before |-> 0]

UiIdle ==
    /\ app = ReconAppInit
    /\ tool = BaseToolInit
    /\ controller = ControllerInit
    /\ disk = <<>>

\* ReconEngine.__init__
EngineInit ==
    /\ tables = [n \in TableNames |-> NoTable]
    /\ source_a_loaded = FALSE
    /\ source_b_loaded = FALSE
    /\ last = NoCall
    /\ UiIdle

\* load_csv(path, table_name), file being what read_csv_auto makes of the file
\* at path (its columns, the types it infers and its rows), NoTable when the
\* file cannot be read.
LoadCsv(table_name, file) ==
    IF ~file.exists
    THEN /\ last' = Call("load_csv", table_name, "", 0, "IOException", 0,
                         NoSummary, NoTable)
         /\ UNCHANGED <<tables, source_a_loaded, source_b_loaded>>
    ELSE /\ tables' = [tables EXCEPT ![table_name] = file]
         /\ source_a_loaded' = (source_a_loaded \/ table_name = "source_a")
         /\ source_b_loaded' = (source_b_loaded \/ table_name = "source_b")
         /\ last' = Call("load_csv", table_name, "", 0, "none", 0,
                         NoSummary, NoTable)

NumericTypes == {"DOUBLE", "BIGINT", "INTEGER", "FLOAT"}

\* The typeof check of clean_amount_column: the type of the column in the
\* first row, if there is a first row, is one of the numeric types.
AlreadyNumeric(t, c) == RowCount(t) > 0 /\ ColType(t, c) \in NumericTypes

\* The ALTER, UPDATE, DROP and RENAME of a normalizer: column c is replaced by
\* the column tmp of the given type, holding F of c's cells (cast to VARCHAR).
ReplaceColumn(t, c, tmp, type, F(_)) ==
    LET added == AddColumnIfNotExists(t, tmp, type)
        from == ColType(t, c)
        updated == UpdateColumn(added, tmp, c, LAMBDA x : F(CastVarchar(x, from)))
    IN  RenameColumn(DropColumn(updated, c), tmp, c)

\* clean_amount_column(table_name, column_name).  TRIM(column) of a column that
\* is not a VARCHAR is bound by a DuckDB that casts to VARCHAR implicitly
\* (implicitCast) and rejected by one that does not; the rejection comes after
\* the ALTER TABLE ADD COLUMN.
CleanAmountColumn(table_name, column_name, implicitCast) ==
    LET t == tables[table_name]
        done(raised, ret) == Call("clean_amount_column", table_name, column_name,
                                  0, raised, ret, NoSummary, t)
    IN  IF ~t.exists
        THEN /\ last' = done("CatalogException", 0)
             /\ UNCHANGED <<tables, source_a_loaded, source_b_loaded>>
        ELSE IF ~HasColumn(t, column_name)
        THEN /\ last' = done("BinderException", 0)
             /\ UNCHANGED <<tables, source_a_loaded, source_b_loaded>>
        ELSE IF AlreadyNumeric(t, column_name)
        THEN /\ last' = done("none", 0)
             /\ UNCHANGED <<tables, source_a_loaded, source_b_loaded>>
        ELSE IF ColType(t, column_name) # "VARCHAR" /\ ~implicitCast
        THEN /\ tables' = [tables EXCEPT ![table_name] =
                              AddColumnIfNotExists(t, "_cleaned_amount", "DOUBLE")]
             /\ last' = done("BinderException", 0)
             /\ UNCHANGED <<source_a_loaded, source_b_loaded>>
        ELSE /\ tables' = [tables EXCEPT ![table_name] =
                              ReplaceColumn(t, column_name, "_cleaned_amount",
                                            "DOUBLE", CleanAmountValue)]
             /\ last' = done("none", RowCount(t))
             /\ UNCHANGED <<source_a_loaded, source_b_loaded>>

\* clean_date_column(table_name, column_name)
CleanDateColumn(table_name, column_name) ==
    LET t == tables[table_name]
        done(raised, ret) == Call("clean_date_column", table_name, column_name,
                                  0, raised, ret, NoSummary, t)
    IN  IF ~t.exists
        THEN /\ last' = done("CatalogException", 0)
             /\ UNCHANGED <<tables, source_a_loaded, source_b_loaded>>
        ELSE IF ~HasColumn(t, column_name)
        THEN /\ tables' = [tables EXCEPT ![table_name] =
                              AddColumnIfNotExists(t, "_cleaned_date", "VARCHAR")]
             /\ last' = done("BinderException", 0)
             /\ UNCHANGED <<source_a_loaded, source_b_loaded>>
        ELSE /\ tables' = [tables EXCEPT ![table_name] =
                              ReplaceColumn(t, column_name, "_cleaned_date",
                                            "VARCHAR", CleanDateValue)]
             /\ last' = done("none", RowCount(t))
             /\ UNCHANGED <<source_a_loaded, source_b_loaded>>

(***************************************************************************)
(* SQL's three-valued comparisons, as reconcile's WHERE and ON clauses use *)
(* them: a comparison with a NULL operand is unknown, and a row is kept    *)
(* only when its condition is true.                                        *)
(***************************************************************************)
SqlBool(b) == IF b THEN "true" ELSE "false"

SqlEq(x, y) == IF IsNull(x) \/ IsNull(y) THEN "unknown" ELSE SqlBool(x = y)

SqlNe(x, y) == IF IsNull(x) \/ IsNull(y) THEN "unknown" ELSE SqlBool(x # y)

\* ABS(x - y)
SqlAbsDiff(x, y) == IF IsNull(x) \/ IsNull(y) THEN NULL ELSE Num(Abs(x.v - y.v))

SqlLe(x, n) == IF IsNull(x) THEN "unknown" ELSE SqlBool(x.v <= n)

SqlGt(x, n) == IF IsNull(x) THEN "unknown" ELSE SqlBool(x.v > n)

SqlAnd(p, q) ==
    IF p = "false" \/ q = "false" THEN "false"
    ELSE IF p = "true" /\ q = "true" THEN "true" ELSE "unknown"

(***************************************************************************)
(* reconcile.                                                              *)
(***************************************************************************)
\* A ReconConfig (models.py); amount_tolerance in fixed point, no description
\* columns.
ReconConfig(match_key, tol, date_a, date_b, amount_a, amount_b) ==
    [match_key |-> match_key, amount_tolerance |-> tol,
     date_col_a |-> date_a, date_col_b |-> date_b,
     amount_col_a |-> amount_a, amount_col_b |-> amount_b]

\* if not self._source_a_loaded or not self._source_b_loaded
\* A check that rejects only an engine with neither source loaded.
NotBothLoaded_Neither == ~source_a_loaded /\ ~source_b_loaded

NotBothLoaded == ~source_a_loaded \/ ~source_b_loaded

\* The k-th of the m * n pairs <<row of A, row of B>>, A's rows outermost.
PairAt(k, n) == <<((k - 1) \div n) + 1, ((k - 1) % n) + 1>>

\* ON a.match_key = b.match_key
JoinOn(A, B, cfg, p) ==
    SqlEq(Cell(A, p[1], cfg.match_key), Cell(B, p[2], cfg.match_key)) = "true"

\* source_a a INNER JOIN source_b b ON a.match_key = b.match_key
InnerJoin(A, B, cfg) ==
    SelectSeq([k \in 1..(RowCount(A) * RowCount(B)) |-> PairAt(k, RowCount(B))],
              LAMBDA p : JoinOn(A, B, cfg, p))

\* ABS(a.amount - b.amount) of a joined pair
Variance(A, B, cfg, p) ==
    SqlAbsDiff(Cell(A, p[1], cfg.amount_col_a), Cell(B, p[2], cfg.amount_col_b))

\* An exact match that leaves the tolerance itself out: ... < tolerance.
ExactWhere_BelowTolerance(A, B, cfg, p) ==
    SqlAnd(SqlEq(Cell(A, p[1], cfg.date_col_a), Cell(B, p[2], cfg.date_col_b)),
           IF IsNull(Variance(A, B, cfg, p)) THEN "unknown"
           ELSE SqlBool(Variance(A, B, cfg, p).v < cfg.amount_tolerance)) = "true"

\* WHERE a.date = b.date AND ABS(a.amount - b.amount) <= tolerance
ExactWhere(A, B, cfg, p) ==
    SqlAnd(SqlEq(Cell(A, p[1], cfg.date_col_a), Cell(B, p[2], cfg.date_col_b)),
           SqlLe(Variance(A, B, cfg, p), cfg.amount_tolerance)) = "true"

\* WHERE a.date != b.date AND ABS(a.amount - b.amount) <= tolerance
DateNoteWhere(A, B, cfg, p) ==
    SqlAnd(SqlNe(Cell(A, p[1], cfg.date_col_a), Cell(B, p[2], cfg.date_col_b)),
           SqlLe(Variance(A, B, cfg, p), cfg.amount_tolerance)) = "true"

\* WHERE ABS(a.amount - b.amount) > tolerance
VarianceWhere(A, B, cfg, p) ==
    SqlGt(Variance(A, B, cfg, p), cfg.amount_tolerance) = "true"

\* The select list the three matched tables share: match_key, date_a, date_b,
\* amount_a, amount_b.
MatchedCells(A, B, cfg, p) ==
    <<Cell(A, p[1], cfg.match_key), Cell(A, p[1], cfg.date_col_a),
      Cell(B, p[2], cfg.date_col_b), Cell(A, p[1], cfg.amount_col_a),
      Cell(B, p[2], cfg.amount_col_b)>>

MatchedCols == <<"match_key", "date_a", "date_b", "amount_a", "amount_b">>

MatchedTypes(A, B, cfg) ==
    <<ColType(A, cfg.match_key), ColType(A, cfg.date_col_a),
      ColType(B, cfg.date_col_b), ColType(A, cfg.amount_col_a),
      ColType(B, cfg.amount_col_b)>>

\* 'Date mismatch'
DateMismatch == Text(<<"D", "a", "t", "e", " ", "m", "i", "s", "m", "a", "t", "c", "h">>)

MapSeq(s, F(_)) == [i \in 1..Len(s) |-> F(s[i])]

\* CREATE OR REPLACE TABLE exact_matches
ExactMatches(A, B, cfg) ==
    MkTable(MatchedCols \o <<"description_a", "description_b">>,
            MatchedTypes(A, B, cfg) \o <<"INTEGER", "INTEGER">>,
            MapSeq(SelectSeq(InnerJoin(A, B, cfg),
                             LAMBDA p : ExactWhere(A, B, cfg, p)),
                   LAMBDA p : MatchedCells(A, B, cfg, p) \o <<NULL, NULL>>))

\* CREATE OR REPLACE TABLE matches_with_date_note
MatchesWithDateNote(A, B, cfg) ==
    MkTable(MatchedCols \o <<"description_a", "description_b", "note">>,
            MatchedTypes(A, B, cfg) \o <<"INTEGER", "INTEGER", "VARCHAR">>,
            MapSeq(SelectSeq(InnerJoin(A, B, cfg),
                             LAMBDA p : DateNoteWhere(A, B, cfg, p)),
                   LAMBDA p : MatchedCells(A, B, cfg, p)
                              \o <<NULL, NULL, DateMismatch>>))

\* CREATE OR REPLACE TABLE amount_variances
AmountVariances(A, B, cfg) ==
    MkTable(MatchedCols \o <<"variance", "description_a", "description_b">>,
            MatchedTypes(A, B, cfg) \o <<"DOUBLE", "INTEGER", "INTEGER">>,
            MapSeq(SelectSeq(InnerJoin(A, B, cfg),
                             LAMBDA p : VarianceWhere(A, B, cfg, p)),
                   LAMBDA p : MatchedCells(A, B, cfg, p)
                              \o <<Variance(A, B, cfg, p), NULL, NULL>>))

\* An anti-join that loses the rows whose own key is NULL.
MissingRows_KeyedOnly(L, R, cfg) ==
    LET partners(i) == {j \in 1..RowCount(R) : JoinOn(L, R, cfg, <<i, j>>)}
        RECURSIVE Out(_)
        Out(i) == IF i > RowCount(L) THEN <<>>
                  ELSE (IF partners(i) = {} /\ ~IsNull(Cell(L, i, cfg.match_key))
                        THEN <<L.rows[i]>> ELSE <<>>) \o Out(i + 1)
    IN  Out(1)

\* The rows of L that LEFT JOIN R ON the match key leaves with a NULL R key: a
\* row of L with no partner in R comes out once, its R side all NULL, and is
\* kept; a row with partners comes out once per partner, the partner's key
\* tested.
MissingRows(L, R, cfg) ==
    LET partners(i) == {j \in 1..RowCount(R) : JoinOn(L, R, cfg, <<i, j>>)}
        kept(i) == IF partners(i) = {} THEN 1
                   ELSE Cardinality({j \in partners(i) :
                                         IsNull(Cell(R, j, cfg.match_key))})
        RECURSIVE Out(_)
        Out(i) == IF i > RowCount(L) THEN <<>>
                  ELSE [k \in 1..kept(i) |-> L.rows[i]] \o Out(i + 1)
    IN  Out(1)

\* CREATE OR REPLACE TABLE missing_in_b / missing_in_a: SELECT l.*
MissingIn(L, R, cfg) == MkTable(L.cols, L.types, MissingRows(L, R, cfg))

\* Whether DuckDB binds reconcile's first statement: both tables hold the
\* configured columns and both amounts are numeric (there is no '-' on VARCHAR).
ReconBinds(A, B, cfg) ==
    /\ HasColumn(A, cfg.match_key) /\ HasColumn(B, cfg.match_key)
    /\ HasColumn(A, cfg.date_col_a) /\ HasColumn(B, cfg.date_col_b)
    /\ HasColumn(A, cfg.amount_col_a) /\ HasColumn(B, cfg.amount_col_b)
    /\ ColType(A, cfg.amount_col_a) \in NumericTypes
    /\ ColType(B, cfg.amount_col_b) \in NumericTypes

\* reconcile(config)
Reconcile(cfg) ==
    LET A == tables["source_a"]
        B == tables["source_b"]
        done(raised, summary) == Call("reconcile", "", "", cfg.amount_tolerance,
                                      raised, 0, summary, NoTable)
    IN  IF NotBothLoaded
        THEN /\ last' = done("ValueError", NoSummary)
             /\ UNCHANGED <<tables, source_a_loaded, source_b_loaded>>
        ELSE IF ~A.exists \/ ~B.exists
        THEN /\ last' = done("CatalogException", NoSummary)
             /\ UNCHANGED <<tables, source_a_loaded, source_b_loaded>>
        ELSE IF ~ReconBinds(A, B, cfg)
        THEN /\ last' = done("BinderException", NoSummary)
             /\ UNCHANGED <<tables, source_a_loaded, source_b_loaded>>
        ELSE LET out == [exact_matches |-> ExactMatches(A, B, cfg),
                         matches_with_date_note |-> MatchesWithDateNote(A, B, cfg),
                         amount_variances |-> AmountVariances(A, B, cfg),
                         missing_in_b |-> MissingIn(A, B, cfg),
                         missing_in_a |-> MissingIn(B, A, cfg)]
             IN  /\ tables' = [n \in TableNames |->
                                  IF n \in ResultNames THEN out[n] ELSE tables[n]]
                 /\ last' = done("none", [n \in ResultNames |-> RowCount(out[n])])
                 /\ UNCHANGED <<source_a_loaded, source_b_loaded>>

(***************************************************************************)
(* The inputs the model enumerates.                                        *)
(***************************************************************************)
StringsUpTo(chars, n) == UNION {[1..k -> chars] : k \in 0..n}

\* Every source file has the columns id, date, amount; read_csv_auto types the
\* id BIGINT, the date VARCHAR and the amount VARCHAR (raw) or DOUBLE.
SourceCols == <<"id", "date", "amount">>
RawTypes == <<"BIGINT", "VARCHAR", "VARCHAR">>
NumTypes == <<"BIGINT", "VARCHAR", "DOUBLE">>

Date1 == Text(<<"2", "0", "2", "4", "-", "0", "1", "-", "0", "1">>)
Date2 == Text(<<"2", "0", "2", "4", "-", "0", "1", "-", "0", "2">>)

\* Raw amounts: every text of at most MaxAmountLen characters over two digits,
\* the separators, a currency sign, the parentheses and the space, and the
\* amounts the documentation names.
AmountChars == {"0", "1", ".", ",", "-", "$", "(", ")", " "}

AmountExamples ==
    {<<"$", "1", ",", "2", "3", "4", ".", "5", "6">>,
     <<"(", "1", "0", "0", ")">>,
     <<" ", " ", "4", "2", " ">>,
     <<"1", ".", "2", "3", "4", ",", "5", "6">>,
     <<"1", ".", "2", ".", "3">>,
     <<"(", "-", "1", "2", ")">>}

AmountCells ==
    {NULL} \cup {Text(s) : s \in StringsUpTo(AmountChars, MaxAmountLen) \cup AmountExamples}

AmountExampleCells == {NULL} \cup {Text(s) : s \in AmountExamples}

\* Tables of raw amounts: no row, one row of any enumerated amount, or such a
\* row followed by a row of a documented amount.
AmountTables ==
    {MkTable(SourceCols, RawTypes, rows) :
        rows \in {<<>>}
            \cup {<<<<Num(Dec(1, 0)), Date1, x>>>> : x \in AmountCells}
            \cup {<<<<Num(Dec(1, 0)), Date1, x>>, <<Num(Dec(2, 0)), Date2, y>>>> :
                     x \in AmountCells, y \in AmountExampleCells}}

\* Raw dates: every text of at most MaxDateLen characters over two digits, the
\* slash and the hyphen, and the dates the documentation names.
DateChars == {"1", "3", "/", "-"}

DateExamples ==
    {<<"2", "0", "2", "4", "-", "0", "3", "-", "0", "5">>,
     <<"2", "5", "/", "0", "3", "/", "2", "0", "2", "4">>,
     <<"0", "3", "/", "2", "5", "/", "2", "0", "2", "4">>,
     <<"0", "3", "/", "0", "4", "/", "2", "0", "2", "4">>,
     <<"5", "/", "4", "/", "2", "0", "2", "4">>,
     <<"2", "0", "2", "4", "/", "0", "3", "/", "2", "5">>,
     <<"1", "/", "2", "/", "-", "0", "3", "-", "0", "4">>,
     <<"1", "/", "2", "/", "3", "/", "4">>}

DateCells ==
    {NULL} \cup {Text(s) : s \in StringsUpTo(DateChars, MaxDateLen) \cup DateExamples}

DateExampleCells == {NULL} \cup {Text(s) : s \in DateExamples}

DateTables ==
    {MkTable(SourceCols, RawTypes, rows) :
        rows \in {<<>>}
            \cup {<<<<Num(Dec(1, 0)), x, NULL>>>> : x \in DateCells}
            \cup {<<<<Num(Dec(1, 0)), x, NULL>>, <<Num(Dec(2, 0)), y, NULL>>>> :
                     x \in DateCells, y \in DateExampleCells}}

\* Source rows of a reconciliation: <<id, date, amount>>, the id a key or
\* none, the date a date or none, the amount a number or none.
Amt(n) == Num(Dec(n, 0))

ReconRowsA ==
    <<<<Amt(1), Date1, Amt(100)>>, <<Amt(1), NULL, Amt(100)>>,
      <<Amt(1), Date1, NULL>>, <<Amt(2), Date1, Amt(100)>>,
      <<NULL, Date1, Amt(100)>>>>

ReconRowsB ==
    <<<<Amt(1), Date1, Amt(100)>>, <<Amt(1), Date2, Amt(100)>>,
      <<Amt(1), Date1, Amt(101)>>, <<Amt(1), Date2, Amt(102)>>,
      <<Amt(1), NULL, NULL>>, <<Amt(3), Date1, Amt(100)>>,
      <<NULL, Date1, Amt(100)>>>>

\* Tables of at most MaxRows rows out of kinds, rows being unordered: one table
\* per multiset of row kinds.
ReconTablesOf(kinds) ==
    LET sorted(s) == \A i \in 1..(Len(s) - 1) : s[i] <= s[i + 1]
    IN  {MkTable(SourceCols, NumTypes, [i \in 1..Len(s) |-> kinds[s[i]]]) :
            s \in {q \in UNION {[1..n -> 1..Len(kinds)] : n \in 0..MaxRows} : sorted(q)}}

ReconTablesA == ReconTablesOf(ReconRowsA)
ReconTablesB == ReconTablesOf(ReconRowsB)

\* Tolerances: 0.0 and 1.0.
Tolerances == {Dec(0, 0), Dec(1, 0)}

DefaultConfig(tol) == ReconConfig("id", tol, "date", "date", "amount", "amount")

(***************************************************************************)
(* Specifications.                                                         *)
(***************************************************************************)
\* reconcile on two loaded sources.
InitRecon ==
    /\ \E A \in ReconTablesA, B \in ReconTablesB :
          tables = [n \in TableNames |->
                       IF n = "source_a" THEN A ELSE IF n = "source_b" THEN B ELSE NoTable]
    /\ source_a_loaded = TRUE
    /\ source_b_loaded = TRUE
    /\ last = Call("load_csv", "source_b", "", 0, "none", 0, NoSummary, NoTable)
    /\ UiIdle

NextRecon ==
    \E tol \in Tolerances : Reconcile(DefaultConfig(tol)) /\ UNCHANGED uiVars

SpecRecon == InitRecon /\ [][NextRecon]_vars

\* clean_amount_column on a loaded table of raw amounts.
InitAmount ==
    /\ \E T \in AmountTables :
          tables = [n \in TableNames |-> IF n = "input_data" THEN T ELSE NoTable]
    /\ source_a_loaded = FALSE
    /\ source_b_loaded = FALSE
    /\ last = Call("load_csv", "input_data", "", 0, "none", 0, NoSummary, NoTable)
    /\ UiIdle

NextAmount ==
    \E implicitCast \in BOOLEAN :
        CleanAmountColumn("input_data", "amount", implicitCast) /\ UNCHANGED uiVars

SpecAmount == InitAmount /\ [][NextAmount]_vars

\* clean_date_column on a loaded table of raw dates.
InitDate ==
    /\ \E T \in DateTables :
          tables = [n \in TableNames |-> IF n = "input_data" THEN T ELSE NoTable]
    /\ source_a_loaded = FALSE
    /\ source_b_loaded = FALSE
    /\ last = Call("load_csv", "input_data", "", 0, "none", 0, NoSummary, NoTable)
    /\ UiIdle

NextDate == CleanDateColumn("input_data", "date") /\ UNCHANGED uiVars

SpecDate == InitDate /\ [][NextDate]_vars

\* The engine from its construction, on a few small files.
SmallFiles ==
    {MkTable(SourceCols, RawTypes, <<>>),
     MkTable(SourceCols, RawTypes,
             <<<<Num(Dec(1, 0)), Text(<<"3", "/", "1", "3", "/", "1">>),
                 Text(<<"$", "1">>)>>>>)}

LoadNames == {"source_a", "source_b"}

Init == EngineInit

Next ==
    \/ \E n \in LoadNames, f \in SmallFiles \cup {NoTable} :
          LoadCsv(n, f) /\ UNCHANGED uiVars
    \/ \E n \in LoadNames, implicitCast \in BOOLEAN :
          CleanAmountColumn(n, "amount", implicitCast) /\ UNCHANGED uiVars
    \/ \E n \in LoadNames : CleanDateColumn(n, "date") /\ UNCHANGED uiVars
    \/ Reconcile(DefaultConfig(Dec(0, 0))) /\ UNCHANGED uiVars

Spec == Init /\ [][Next]_vars

(***************************************************************************)
(* Properties of reconcile, stated on the two sources and the five result  *)
(* tables of a state that a successful reconcile has just produced.        *)
(***************************************************************************)
SrcA == tables["source_a"]
SrcB == tables["source_b"]

ReconDone == last.op = "reconcile" /\ last.raised = "none"

KeyA(i) == Cell(SrcA, i, "id")
KeyB(j) == Cell(SrcB, j, "id")

\* The joined pairs: a row of A and a row of B whose keys are present and equal.
JoinedPairs ==
    {p \in (1..RowCount(SrcA)) \X (1..RowCount(SrcB)) :
        ~IsNull(KeyA(p[1])) /\ ~IsNull(KeyB(p[2])) /\ KeyA(p[1]) = KeyB(p[2])}

\* What a joined pair shows in a matched table: key, date_a, date_b, amount_a,
\* amount_b.
PairCells(p) ==
    <<KeyA(p[1]), Cell(SrcA, p[1], "date"), Cell(SrcB, p[2], "date"),
      Cell(SrcA, p[1], "amount"), Cell(SrcB, p[2], "amount")>>

\* The number of joined pairs that show the cells r.
PairsShowing(r) == Cardinality({p \in JoinedPairs : PairCells(p) = r})

\* The number of rows of the matched table name that show the cells r.
RowsShowing(name, r) ==
    Cardinality({k \in 1..RowCount(tables[name]) :
                    SubSeq(tables[name].rows[k], 1, 5) = r})

\* The number of rows of table t equal to row.
RowsEqual(t, row) == Cardinality({k \in 1..RowCount(t) : t.rows[k] = row})

MatchedNames == {"exact_matches", "matches_with_date_note", "amount_variances"}

\* C1 (as claimed): after reconcile every joined pair, whatever its dates and
\* amounts, NULL or not, is in exactly one of exact_matches,
\* matches_with_date_note and amount_variances: no two of the tables share a
\* pair, and together they hold as many rows as there are joined pairs.
C1_EveryPairInExactlyOneTable ==
    ReconDone =>
        /\ \A p \in JoinedPairs :
              /\ RowsShowing("exact_matches", PairCells(p))
                    + RowsShowing("matches_with_date_note", PairCells(p))
                    + RowsShowing("amount_variances", PairCells(p))
                 = PairsShowing(PairCells(p))
              /\ Cardinality({n \in MatchedNames : RowsShowing(n, PairCells(p)) > 0}) = 1
        /\ last.summary.exact_matches + last.summary.matches_with_date_note
              + last.summary.amount_variances = Cardinality(JoinedPairs)

\* The amounts of the pair are both present, and so is their difference.
AmountsPresent(p) == ~IsNull(PairCells(p)[4]) /\ ~IsNull(PairCells(p)[5])
DatesPresent(p) == ~IsNull(PairCells(p)[2]) /\ ~IsNull(PairCells(p)[3])
Difference(p) == Abs(PairCells(p)[4].v - PairCells(p)[5].v)

\* All the joined pairs that show what p shows are in the table name, and in no
\* other matched table.
OnlyIn(name, p) ==
    \A n \in MatchedNames :
        RowsShowing(n, PairCells(p)) = IF n = name THEN PairsShowing(PairCells(p)) ELSE 0

OneRow(t, row) == t.cols = SourceCols /\ t.rows = <<row>>

\* C2: reconcile classifies a joined pair by amount first, then date.  A pair
\* whose amounts are present is in amount_variances exactly when their
\* difference exceeds the tolerance, whatever its dates; a pair whose difference
\* is at most the tolerance (the tolerance itself included) and whose dates are
\* present is in exact_matches when the dates are equal and in
\* matches_with_date_note when they differ; and nothing else is in
\* amount_variances.  A = [{1, 2024-01-01, 100.00}], B = [{1, 2024-01-02,
\* 100.00}], tolerance 0: one row in matches_with_date_note, none elsewhere.
C2_AmountFirstThenDate ==
    ReconDone =>
        /\ \A p \in JoinedPairs :
              /\ AmountsPresent(p) /\ Difference(p) > last.tol
                    => OnlyIn("amount_variances", p)
              /\ AmountsPresent(p) /\ Difference(p) <= last.tol /\ DatesPresent(p)
                    => IF PairCells(p)[2] = PairCells(p)[3]
                       THEN OnlyIn("exact_matches", p)
                       ELSE OnlyIn("matches_with_date_note", p)
              /\ RowsShowing("amount_variances", PairCells(p)) > 0
                    => AmountsPresent(p) /\ Difference(p) > last.tol
        /\ ( /\ OneRow(SrcA, <<Amt(1), Date1, Amt(100)>>)
             /\ OneRow(SrcB, <<Amt(1), Date2, Amt(100)>>)
             /\ last.tol = 0 )
              => last.summary = [exact_matches |-> 0, matches_with_date_note |-> 1,
                                 amount_variances |-> 0, missing_in_b |-> 0,
                                 missing_in_a |-> 0]

\* C2's case: a run with a tolerance above 0 that puts a pair whose difference
\* is the tolerance itself in exact_matches and a pair of different dates in
\* amount_variances.
C2_Witness ==
    /\ ReconDone
    /\ last.tol > 0
    /\ \E p \in JoinedPairs :
          /\ AmountsPresent(p) /\ Difference(p) = last.tol
          /\ RowsShowing("exact_matches", PairCells(p)) > 0
    /\ \E p \in JoinedPairs :
          /\ DatesPresent(p) /\ PairCells(p)[2] # PairCells(p)[3]
          /\ RowsShowing("amount_variances", PairCells(p)) > 0

\* Row i of L has no partner in R: its key is NULL or the key of no row of R.
Unmatched(L, R, i) ==
    \/ IsNull(Cell(L, i, "id"))
    \/ \A j \in 1..RowCount(R) : Cell(R, j, "id") # Cell(L, i, "id")

\* The table missing holds each unmatched row of L once and nothing else.
HoldsTheUnmatched(missing, L, R) ==
    /\ RowCount(missing) = Cardinality({i \in 1..RowCount(L) : Unmatched(L, R, i)})
    /\ \A i \in 1..RowCount(L) :
          RowsEqual(missing, L.rows[i])
             = Cardinality({k \in 1..RowCount(L) :
                               L.rows[k] = L.rows[i] /\ Unmatched(L, R, k)})

\* C3: missing_in_b holds exactly one row for each row of A whose key is the
\* key of no row of B, and no other row; missing_in_a the same for B.  A row
\* with a NULL key joins no row: it is missing, and no row of the three matched
\* tables has a NULL key.
C3_MissingAreTheUnmatched ==
    ReconDone =>
        /\ HoldsTheUnmatched(tables["missing_in_b"], SrcA, SrcB)
        /\ HoldsTheUnmatched(tables["missing_in_a"], SrcB, SrcA)
        /\ \A n \in MatchedNames : \A k \in 1..RowCount(tables[n]) :
              ~IsNull(tables[n].rows[k][1])

\* C3's case: a row with a NULL key and a row with a key B lacks are in
\* missing_in_b, and a row is in missing_in_a.
C3_Witness ==
    /\ ReconDone
    /\ \E k \in 1..RowCount(tables["missing_in_b"]) :
          IsNull(tables["missing_in_b"].rows[k][1])
    /\ \E k \in 1..RowCount(tables["missing_in_b"]) :
          tables["missing_in_b"].rows[k][1] = Amt(2)
    /\ RowCount(tables["missing_in_a"]) > 0

\* The number of rows of the table name whose first cell is key.
RowsWithKey(name, key) ==
    Cardinality({k \in 1..RowCount(tables[name]) : tables[name].rows[k][1] = key})

\* C4 (as claimed): a key that m rows of A and n rows of B carry has exactly
\* m * n rows in the three matched tables together, and, when m * n > 0, no row
\* in missing_in_b or missing_in_a.
C4_EveryCombinationClassified ==
    ReconDone =>
        \A key \in {Amt(1), Amt(2), Amt(3)} :
            LET m == Cardinality({i \in 1..RowCount(SrcA) : KeyA(i) = key})
                n == Cardinality({j \in 1..RowCount(SrcB) : KeyB(j) = key})
            IN  /\ RowsWithKey("exact_matches", key)
                      + RowsWithKey("matches_with_date_note", key)
                      + RowsWithKey("amount_variances", key) = m * n
                /\ m * n > 0 => /\ RowsWithKey("missing_in_b", key) = 0
                                /\ RowsWithKey("missing_in_a", key) = 0

(***************************************************************************)
(* Properties of the loaded flags and of reconcile's precondition.         *)
(***************************************************************************)
\* C5: a reconcile on an engine whose two sources have not both been loaded
\* raises ValueError and leaves every table as it was; a successful load_csv
\* into source_a (source_b) marks that source loaded, a loaded source stays
\* loaded whatever runs next, and a reconcile with both sources loaded never
\* raises that ValueError.
C5_ReconcileNeedsBothSources ==
    /\ [][last'.op = "reconcile" =>
             IF source_a_loaded /\ source_b_loaded
             THEN last'.raised # "ValueError"
             ELSE last'.raised = "ValueError" /\ tables' = tables]_vars
    /\ [][/\ source_a_loaded => source_a_loaded'
          /\ source_b_loaded => source_b_loaded']_vars
    /\ [][last'.op = "load_csv" /\ last'.raised = "none" =>
             /\ last'.table = "source_a" => source_a_loaded'
             /\ last'.table = "source_b" => source_b_loaded']_vars

\* C5's case: a reconcile rejected with source_b loaded and source_a not.
C5_Witness ==
    /\ last.op = "reconcile"
    /\ last.raised = "ValueError"
    /\ source_b_loaded
    /\ ~source_a_loaded
    /\ tables["source_b"].exists

(***************************************************************************)
(* Properties of clean_amount_column.  last.before is the table the call   *)
(* found, tables[last.table] the table it left.                            *)
(***************************************************************************)
\* C6 (as claimed): a clean_amount_column on a column of a numeric type raises
\* nothing, returns 0 and leaves the table as it was (values, column types,
\* column order); so does a clean_amount_column that comes right after a
\* successful one on the same column.
C6_NumericColumnUntouched ==
    [][last'.op = "clean_amount_column" =>
          LET t == tables[last'.table]
              numeric == /\ t.exists
                         /\ HasColumn(t, last'.column)
                         /\ ColType(t, last'.column) \in NumericTypes
              repeated == /\ last.op = "clean_amount_column"
                          /\ last.raised = "none"
                          /\ last.table = last'.table
                          /\ last.column = last'.column
          IN  numeric \/ repeated =>
                 /\ last'.raised = "none"
                 /\ last'.ret = 0
                 /\ tables' = tables]_vars

\* A clean_amount_column has just run on the text column amount.
AmountCleaned ==
    /\ last.op = "clean_amount_column"
    /\ last.before.exists
    /\ ColType(last.before, "amount") = "VARCHAR"

RawAmount(i) == Cell(last.before, i, "amount")
CleanedAmount(i) == Cell(tables[last.table], i, "amount")

\* The text is wrapped in parentheses; what is between them.
Wrapped(s) == Len(s) >= 2 /\ Head(s) = "(" /\ s[Len(s)] = ")"
Inner(s) == SubSeq(s, 2, Len(s) - 1)

\* The text after deleting every character other than digits, '.', ',' and
\* '-', and then the commas.
AfterDeletions(s) == SelectSeq(s, LAMBDA c : c \in Digits \cup {".", "-"})

\* The text a raw amount is parsed from.
TextToParse(s) == AfterDeletions(IF Wrapped(Trim(s)) THEN Inner(Trim(s)) ELSE s)

\* The text reads as a number: a minus sign at the front or none, one decimal
\* point at most, a digit at least.
ReadsAsNumber(s) ==
    /\ \A i \in 2..Len(s) : s[i] # "-"
    /\ Cardinality({i \in 1..Len(s) : s[i] = "."}) <= 1
    /\ \E i \in 1..Len(s) : s[i] \in Digits

\* The number such a text reads as: its digits, scaled by the count of digits
\* after the point, with its sign.
NumberRead(s) ==
    LET points == {i \in 1..Len(s) : s[i] = "."}
        decimals == IF points = {} THEN 0 ELSE Len(s) - (CHOOSE i \in points : TRUE)
        magnitude == Dec(DigitsToNat(SelectSeq(s, LAMBDA c : c \in Digits)), decimals)
    IN  IF Head(s) = "-" THEN -magnitude ELSE magnitude

Dollars1234_56 == Text(<<"$", "1", ",", "2", "3", "4", ".", "5", "6">>)
Parenthesized100 == Text(<<"(", "1", "0", "0", ")">>)
Padded42 == Text(<<" ", " ", "4", "2", " ">>)
European1234_56 == Text(<<"1", ".", "2", "3", "4", ",", "5", "6">>)
TwoPoints == Text(<<"1", ".", "2", ".", "3">>)
InnerMinus == Text(<<"1", "-", "1">>)

\* C7: clean_amount_column turns a text whose trimmed form is wrapped in
\* parentheses into the negation of the number read from the inner text after
\* the deletions, and any other text into the number read from it after the
\* deletions: "$1,234.56" becomes 1234.56, "(100)" -100.0 and "  42 " 42.0.
C7_AmountFormula ==
    AmountCleaned /\ last.raised = "none" =>
        \A i \in 1..RowCount(last.before) :
            /\ ~IsNull(RawAmount(i)) /\ ReadsAsNumber(TextToParse(RawAmount(i).v))
                  => CleanedAmount(i) =
                        Num(IF Wrapped(Trim(RawAmount(i).v))
                            THEN -NumberRead(TextToParse(RawAmount(i).v))
                            ELSE NumberRead(TextToParse(RawAmount(i).v)))
            /\ RawAmount(i) = Dollars1234_56 => CleanedAmount(i) = Num(Dec(123456, 2))
            /\ RawAmount(i) = Parenthesized100 => CleanedAmount(i) = Num(Dec(-100, 0))
            /\ RawAmount(i) = Padded42 => CleanedAmount(i) = Num(Dec(42, 0))

\* C7's case: a table of "$1,234.56" and "(100)" cleaned to 1234.56 and -100.0.
C7_Witness ==
    /\ AmountCleaned
    /\ RowCount(last.before) = 2
    /\ RawAmount(1) = Dollars1234_56 /\ CleanedAmount(1) = Num(Dec(123456, 2))
    /\ RawAmount(2) = Parenthesized100 /\ CleanedAmount(2) = Num(Dec(-100, 0))

\* C8: clean_amount_column on a text column raises nothing, whatever the
\* values: a row whose text does not read as a number after the deletions
\* (nothing left, two decimal points, an inner minus sign) gets NULL, a row
\* whose text does gets a number, and the table keeps its rows.
C8_MalformedBecomesNull ==
    AmountCleaned =>
        /\ last.raised = "none"
        /\ RowCount(tables[last.table]) = RowCount(last.before)
        /\ \A i \in 1..RowCount(last.before) :
              /\ IsNull(CleanedAmount(i))
                    <=> \/ IsNull(RawAmount(i))
                        \/ ~ReadsAsNumber(TextToParse(RawAmount(i).v))
              /\ RawAmount(i) \in {TwoPoints, InnerMinus, Text(<<"$">>),
                                   Text(<<>>)}
                    => IsNull(CleanedAmount(i))

\* C8's case: a table of "1-1" and "(100)" cleaned to NULL and -100.0.
C8_Witness ==
    /\ AmountCleaned
    /\ last.raised = "none"
    /\ RowCount(last.before) = 2
    /\ RawAmount(1) = InnerMinus /\ IsNull(CleanedAmount(1))
    /\ RawAmount(2) = Parenthesized100 /\ CleanedAmount(2) = Num(Dec(-100, 0))

\* The digits of the text, and how many of them come after its first point.
DigitsOf(s) == SelectSeq(s, LAMBDA c : c \in Digits)
DigitsAfterPoint(s) ==
    Cardinality({i \in 1..Len(s) :
                    s[i] \in Digits /\ \E j \in 1..(i - 1) : s[j] = "."})

DateCleaned ==
    /\ last.op = "clean_date_column"
    /\ last.raised = "none"
    /\ last.before.exists

RawDate(i) == Cell(last.before, i, "date")
CleanedDate(i) == Cell(tables[last.table], i, "date")

\* The places of the slashes in s, and the three parts of a text with two.
Slashes(s) == {i \in 1..Len(s) : s[i] = "/"}
FirstSlash(s) == CHOOSE i \in Slashes(s) : \A j \in Slashes(s) : i <= j
LastSlash(s) == CHOOSE i \in Slashes(s) : \A j \in Slashes(s) : j <= i
Part1(s) == SubSeq(s, 1, FirstSlash(s) - 1)
Part2(s) == SubSeq(s, FirstSlash(s) + 1, LastSlash(s) - 1)
Part3(s) == SubSeq(s, LastSlash(s) + 1, Len(s))

\* The part is a number above 12.
Above12(part) ==
    /\ part # <<>>
    /\ \A i \in 1..Len(part) : part[i] \in Digits
    /\ DigitsToNat(part) > 12

\* The part with zeros put before it until it has two characters.
ZeroPadded(part) ==
    IF Len(part) >= 2 THEN part
    ELSE IF Len(part) = 1 THEN <<"0">> \o part ELSE <<"0", "0">>

\* part3-MM-DD of a text of three parts.
Normalized(s) ==
    LET monthFirst == ~Above12(Part1(s)) /\ Above12(Part2(s))
        month == IF monthFirst THEN Part1(s) ELSE Part2(s)
        day == IF monthFirst THEN Part2(s) ELSE Part1(s)
    IN  Part3(s) \o <<"-">> \o ZeroPadded(month) \o <<"-">> \o ZeroPadded(day)

(***************************************************************************)
(* C10 (as claimed): clean_date_column turns every value of exactly three  *)
(* slash-separated parts into part3-MM-DD, the month and the day padded    *)
(* with zeros to two digits: the day is part1 and the month part2 when     *)
(* part1 > 12, the month part1 and the day part2 when part2 > 12 instead,  *)
(* the day part1 and the month part2 otherwise.                            *)
(***************************************************************************)
C10_SlashDateFormula ==
    DateCleaned =>
        \A i \in 1..RowCount(last.before) :
            ~IsNull(RawDate(i)) /\ Cardinality(Slashes(RawDate(i).v)) = 2
                => CleanedDate(i) = Text(Normalized(RawDate(i).v))

\* C11 (as claimed): clean_date_column keeps as it is every value that is not
\* slash-separated into exactly three parts: a value of the form
\* ____-__-__, and any other value with no slash, one slash, or three
\* slashes or more.
C11_OthersPassThrough ==
    DateCleaned =>
        \A i \in 1..RowCount(last.before) :
            ~IsNull(RawDate(i)) /\ Cardinality(Slashes(RawDate(i).v)) # 2
                => CleanedDate(i) = RawDate(i)

(***************************************************************************)
(* detect_column.  Column names and patterns are texts, character by       *)
(* character, so that lower() and the substring test are computed.         *)
\* C27: date normalization is idempotent: clean_date_column called on a column
\* that clean_date_column has cleaned leaves every table as it is, the column
\* cleaned twice being the column cleaned once.
C27_CleanedTwiceIsCleanedOnce ==
    [][last.op = "clean_date_column" /\ last.raised = "none"
          /\ last'.op = "clean_date_column"
          => last'.raised = "none" /\ tables' = tables]_vars

\* C27's case: the slash date 25/03/2024, cleaned to 2024-03-25, has been
\* cleaned again: the call found the table as it has left it.
C27_Witness ==
    /\ DateCleaned
    /\ last.before = tables[last.table]
    /\ RowCount(last.before) > 0
    /\ CleanedDate(1) = Text(<<"2", "0", "2", "4", "-", "0", "3", "-", "2", "5">>)

(***************************************************************************)
\* What a call of one of the data tools leaves behind: as Call, with the
\* arguments of the call in args.
CallOf(op, table, args, raised, ret, before) ==
    Call(op, table, "", 0, raised, ret, NoSummary, before) @@ [args |-> args]

UpperCase == <<"A", "B", "C", "D", "E", "F", "G", "H", "I", "J", "K", "L", "M",
               "N", "O", "P", "Q", "R", "S", "T", "U", "V", "W", "X", "Y", "Z">>
LowerCase == <<"a", "b", "c", "d", "e", "f", "g", "h", "i", "j", "k", "l", "m",
               "n", "o", "p", "q", "r", "s", "t", "u", "v", "w", "x", "y", "z">>

\* str.lower() and SQL's LOWER, on the ASCII letters.
LowerChar(c) ==
    IF \E k \in 1..Len(UpperCase) : UpperCase[k] = c
    THEN LowerCase[CHOOSE k \in 1..Len(UpperCase) : UpperCase[k] = c]
    ELSE c

Lower(s) == [i \in 1..Len(s) |-> LowerChar(s[i])]

\* sub in s
IsSubstring(sub, s) ==
    \E k \in 0..(Len(s) - Len(sub)) : SubSeq(s, k + 1, k + Len(sub)) = sub

\* None, and a returned value.
None == <<>>
Some(x) == <<x>>

\* for pattern in patterns: if pattern.lower() in col_lower
RECURSIVE AnyPatternIn(_, _)
AnyPatternIn(col_lower, patterns) ==
    IF patterns = <<>> THEN FALSE
    ELSE IF IsSubstring(Lower(Head(patterns)), col_lower) THEN TRUE
    ELSE AnyPatternIn(col_lower, Tail(patterns))

\* A scan that takes the patterns first: the first pattern some column
\* contains decides, and the first column containing it is returned.
RECURSIVE FirstMatch_PatternFirst(_, _)
FirstMatch_PatternFirst(columns, patterns) ==
    IF patterns = <<>> THEN None
    ELSE LET hits == SelectSeq(columns,
                         LAMBDA col : IsSubstring(Lower(Head(patterns)), Lower(col)))
         IN  IF hits # <<>> THEN Some(Head(hits))
             ELSE FirstMatch_PatternFirst(columns, Tail(patterns))

\* for col in columns: ... return col; return None
RECURSIVE FirstMatch(_, _)
FirstMatch(columns, patterns) ==
    IF columns = <<>> THEN None
    ELSE IF AnyPatternIn(Lower(Head(columns)), patterns) THEN Some(Head(columns))
    ELSE FirstMatch(Tail(columns), patterns)

\* detect_column(table_name, patterns)
DetectColumn(table_name, patterns) ==
    LET t == tables[table_name]
        done(raised, ret) == CallOf("detect_column", table_name,
                                    [patterns |-> patterns], raised, ret, t)
    IN  /\ last' = IF ~t.exists THEN done("CatalogException", None)
                   ELSE done("none", FirstMatch(t.cols, patterns))
        /\ UNCHANGED <<tables, source_a_loaded, source_b_loaded>>

\* Column names and patterns of mixed case, one name inside another.
ColumnNames ==
    {<<"D", "a", "t", "e">>, <<"A", "M", "T">>, <<"i", "d">>,
     <<"p", "a", "i", "d", "_", "a", "m", "t">>}

Patterns == {<<"d", "a", "t", "e">>, <<"A", "m", "t">>, <<"I", "D">>, <<"x">>}

\* The sequences of at most n elements of set, and those without a repetition.
SeqsUpTo(set, n) == UNION {[1..k -> set] : k \in 0..n}
DistinctSeqsUpTo(set, n) ==
    {q \in SeqsUpTo(set, n) : \A i, j \in 1..Len(q) : q[i] = q[j] => i = j}

\* Tables of named columns without rows.
DetectTables ==
    {MkTable(cols, [i \in 1..Len(cols) |-> "VARCHAR"], <<>>) :
        cols \in DistinctSeqsUpTo(ColumnNames, MaxCols)}

InitDetect ==
    /\ \E T \in DetectTables :
          tables = [n \in TableNames |-> IF n = "input_data" THEN T ELSE NoTable]
    /\ source_a_loaded = FALSE
    /\ source_b_loaded = FALSE
    /\ last = NoCall
    /\ UiIdle

NextDetect ==
    \E n \in {"input_data", "source_a"}, patterns \in SeqsUpTo(Patterns, MaxPatterns) :
        DetectColumn(n, patterns) /\ UNCHANGED uiVars

SpecDetect == InitDetect /\ [][NextDetect]_vars

Detected == last.op = "detect_column" /\ last.raised = "none"

\* The column name contains one of the patterns, both lowercased.
Matches(col, patterns) ==
    \E k \in 1..Len(patterns) : IsSubstring(Lower(patterns[k]), Lower(col))

\* The two lists hold the same patterns, each as often.
SamePatterns(P, Q) ==
    /\ Len(P) = Len(Q)
    /\ \A x \in {P[k] : k \in 1..Len(P)} \cup {Q[k] : k \in 1..Len(Q)} :
          Cardinality({k \in 1..Len(P) : P[k] = x})
             = Cardinality({k \in 1..Len(Q) : Q[k] = x})

\* C12: detect_column returns the first column, in the table's column order,
\* whose lowercased name contains a lowercased pattern, and None when no
\* column does; a call with the same patterns in another order returns the
\* same.
C12_FirstMatchingColumn ==
    /\ [](Detected =>
            LET cols == last.before.cols
                hits == {k \in 1..Len(cols) : Matches(cols[k], last.args.patterns)}
            IN  IF hits = {} THEN last.ret = None
                ELSE last.ret = Some(cols[CHOOSE k \in hits : \A j \in hits : k <= j]))
    /\ [][(/\ Detected /\ Detected'
           /\ last'.table = last.table
           /\ SamePatterns(last.args.patterns, last'.args.patterns))
              => last'.ret = last.ret]_vars

\* C12's case: two patterns, the first found in the second column only and the
\* second in the first column, which is returned.
C12_Witness ==
    /\ Detected
    /\ Len(last.before.cols) >= 2
    /\ Len(last.args.patterns) = 2
    /\ ~Matches(last.before.cols[1], <<last.args.patterns[1]>>)
    /\ Matches(last.before.cols[2], <<last.args.patterns[1]>>)
    /\ Matches(last.before.cols[1], <<last.args.patterns[2]>>)
    /\ last.ret = Some(last.before.cols[1])

(***************************************************************************)
(* union_tables.                                                           *)
(***************************************************************************)
\* set(self.get_columns(table))
ColumnSet(t) == {t.cols[k] : k \in 1..Len(t.cols)}

\* A comparison that only looks for the columns a table lacks.
SchemaDiffers_MissingOnly(reference_cols, current_cols) ==
    reference_cols \ current_cols # {}

\* current_cols != reference_cols
SchemaDiffers(reference_cols, current_cols) == current_cols # reference_cols

\* The first table of table_names[1:] whose column set differs from the first
\* table's, as a position in table_names; 0 when there is none.  A table that
\* does not exist stops the scan: get_columns raises on it.
RECURSIVE FirstMismatch(_, _)
FirstMismatch(table_names, k) ==
    IF k > Len(table_names) THEN 0
    ELSE IF ~tables[table_names[k]].exists THEN k
    ELSE IF SchemaDiffers(ColumnSet(tables[table_names[1]]),
                          ColumnSet(tables[table_names[k]])) THEN k
    ELSE FirstMismatch(table_names, k + 1)

\* The type of a column of a UNION ALL whose branches have the types a and b.
UnionType(a, b) ==
    IF a = b THEN a
    ELSE IF a \in NumericTypes /\ b \in NumericTypes THEN "DOUBLE"
    ELSE "VARCHAR"

RECURSIVE UnionTypes(_)
UnionTypes(ts) ==
    IF Len(ts) = 1 THEN Head(ts).types
    ELSE LET rest == UnionTypes(Tail(ts))
         IN  [c \in 1..Len(rest) |-> UnionType(Head(ts).types[c], rest[c])]

\* The rows of one branch, each cell cast to the type of its column of the
\* union.
CastRows(t, types) ==
    [r \in 1..RowCount(t) |->
        [c \in 1..Len(types) |->
            IF types[c] = "VARCHAR" /\ t.types[c] # "VARCHAR"
            THEN CastVarchar(t.rows[r][c], t.types[c])
            ELSE t.rows[r][c]]]

\* The rows of a UNION, which keeps one of every group of equal rows.
RECURSIVE UnionAllRows_Distinct(_, _)
UnionAllRows_Distinct(ts, types) ==
    IF ts = <<>> THEN <<>>
    ELSE LET rest == UnionAllRows_Distinct(Tail(ts), types)
             mine == CastRows(Head(ts), types)
             fresh == SelectSeq(mine, LAMBDA row : \A k \in 1..Len(rest) : rest[k] # row)
         IN  (IF fresh = <<>> THEN <<>> ELSE <<Head(fresh)>>) \o rest

\* SELECT * FROM t1 UNION ALL SELECT * FROM t2 ...: the rows of every branch,
\* column by position.
RECURSIVE UnionAllRows(_, _)
UnionAllRows(ts, types) ==
    IF ts = <<>> THEN <<>>
    ELSE CastRows(Head(ts), types) \o UnionAllRows(Tail(ts), types)

\* CREATE OR REPLACE TABLE output AS t1 UNION ALL t2 ...: the columns are named
\* as those of the first branch.
UnionAll(ts) ==
    MkTable(Head(ts).cols, UnionTypes(ts), UnionAllRows(ts, UnionTypes(ts)))

\* The ValueError of a schema mismatch, with what its message names.
SchemaMismatch(table, reference_cols, current_cols) ==
    [table |-> table, missing |-> reference_cols \ current_cols,
     extra |-> current_cols \ reference_cols]

\* union_tables(table_names, output_table, validate)
UnionTables(table_names, output_table, validate) ==
    LET ts == [k \in 1..Len(table_names) |-> tables[table_names[k]]]
        bad == IF validate /\ Len(table_names) > 1 /\ tables[table_names[1]].exists
               THEN FirstMismatch(table_names, 2) ELSE 0
        done(raised, ret) ==
            CallOf("union_tables", output_table,
                   [table_names |-> table_names, validate |-> validate],
                   raised, ret, tables[output_table])
    IN  IF table_names = <<>>
        THEN /\ last' = done("ValueError", "No tables provided for union")
             /\ UNCHANGED <<tables, source_a_loaded, source_b_loaded>>
        ELSE IF \/ validate /\ Len(table_names) > 1 /\ ~tables[table_names[1]].exists
                \/ bad > 0 /\ ~tables[table_names[bad]].exists
        THEN /\ last' = done("CatalogException", FALSE)
             /\ UNCHANGED <<tables, source_a_loaded, source_b_loaded>>
        ELSE IF bad > 0
        THEN /\ last' = done("ValueError",
                             SchemaMismatch(table_names[bad],
                                            ColumnSet(tables[table_names[1]]),
                                            ColumnSet(tables[table_names[bad]])))
             /\ UNCHANGED <<tables, source_a_loaded, source_b_loaded>>
        ELSE IF \E k \in 1..Len(ts) : ~ts[k].exists
        THEN /\ last' = done("CatalogException", FALSE)
             /\ UNCHANGED <<tables, source_a_loaded, source_b_loaded>>
        ELSE IF \E k \in 1..Len(ts) : Len(ts[k].cols) # Len(ts[1].cols)
        THEN /\ last' = done("BinderException", FALSE)
             /\ UNCHANGED <<tables, source_a_loaded, source_b_loaded>>
        ELSE /\ tables' = [tables EXCEPT ![output_table] = UnionAll(ts)]
             /\ last' = done("none", TRUE)
             /\ UNCHANGED <<source_a_loaded, source_b_loaded>>

\* Files to combine: the columns id, amount and memo in four arrangements, with
\* no row or MaxRows rows, the ids 1, 2, 1, ...
UnionSchemas ==
    {<<"id", "amount">>, <<"amount", "id">>, <<"id", "memo">>,
     <<"id", "amount", "memo">>}

UnionColType(c) ==
    IF c = "id" THEN "BIGINT" ELSE IF c = "amount" THEN "DOUBLE" ELSE "VARCHAR"

UnionCell(c, r) ==
    IF c = "id" THEN Amt(2 - (r % 2))
    ELSE IF c = "amount" THEN Amt(100) ELSE Text(<<"m">>)

UnionFiles ==
    {MkTable(cols, [k \in 1..Len(cols) |-> UnionColType(cols[k])],
             [r \in 1..n |-> [k \in 1..Len(cols) |-> UnionCell(cols[k], r)]]) :
        cols \in UnionSchemas, n \in {0, MaxRows}}

InitUnion ==
    /\ \E A \in {T \in UnionFiles : T.cols = <<"id", "amount">>}, B \in UnionFiles :
          tables = [n \in TableNames |->
                       IF n = "source_a" THEN A ELSE IF n = "source_b" THEN B ELSE NoTable]
    /\ source_a_loaded = TRUE
    /\ source_b_loaded = TRUE
    /\ last = NoCall
    /\ UiIdle

NextUnion ==
    \E table_names \in SeqsUpTo({"source_a", "source_b", "input_data"}, MaxTables),
       validate \in BOOLEAN :
        UnionTables(table_names, "combined_data", validate) /\ UNCHANGED uiVars

SpecUnion == InitUnion /\ [][NextUnion]_vars

Unioned == last.op = "union_tables"

Listed(k) == tables[last.args.table_names[k]]

\* The listed tables all exist, and some table's set of column names is not
\* the first table's.
SetsDiffer ==
    /\ \A k \in 1..Len(last.args.table_names) : Listed(k).exists
    /\ \E k \in 1..Len(last.args.table_names) :
          ColumnSet(Listed(k)) # ColumnSet(Listed(1))

\* C13: union_tables with validate=True on tables of which one has another set
\* of column names than the first raises ValueError; the error names the first
\* such table, the columns of the first table it lacks and the columns it has
\* beyond them; and the output table is neither created nor replaced.
C13_MismatchReportedNothingWritten ==
    /\ [](Unioned /\ last.args.validate /\ SetsDiffer =>
            LET names == last.args.table_names
                k == CHOOSE k \in 1..Len(names) :
                        /\ ColumnSet(Listed(k)) # ColumnSet(Listed(1))
                        /\ \A j \in 1..(k - 1) : ColumnSet(Listed(j)) = ColumnSet(Listed(1))
            IN  /\ last.raised = "ValueError"
                /\ last.ret.table = names[k]
                /\ last.ret.missing = ColumnSet(Listed(1)) \ ColumnSet(Listed(k))
                /\ last.ret.extra = ColumnSet(Listed(k)) \ ColumnSet(Listed(1)))
    /\ [][Unioned' /\ last'.raised = "ValueError" => tables' = tables]_vars

\* C13's case: a union that an earlier call wrote is still there after a call
\* rejected for a table that lacks a column and has another.
C13_Witness ==
    /\ Unioned
    /\ last.args.validate
    /\ last.raised = "ValueError"
    /\ SetsDiffer
    /\ last.ret.missing # {}
    /\ last.ret.extra # {}
    /\ tables["combined_data"].exists

\* The listed tables all exist with the same columns, in the same order and of
\* the same types.
IdenticalSchemas ==
    \A k \in 1..Len(last.args.table_names) :
        /\ Listed(k).exists
        /\ Listed(k).cols = Listed(1).cols
        /\ Listed(k).types = Listed(1).types

RECURSIVE SumOfRowCounts(_)
SumOfRowCounts(k) == IF k = 0 THEN 0 ELSE RowCount(Listed(k)) + SumOfRowCounts(k - 1)

\* C14: a union_tables of tables with identical schemas succeeds with as many
\* rows in the output as the listed tables have together, a table listed twice
\* counted twice and equal rows all kept: each row is there as often as in the
\* listed tables together.
C14_RowCountIsTheSum ==
    Unioned /\ last.args.table_names # <<>> /\ IdenticalSchemas =>
        /\ last.raised = "none"
        /\ RowCount(tables[last.table]) = SumOfRowCounts(Len(last.args.table_names))
        /\ \A k \in 1..Len(last.args.table_names) : \A r \in 1..RowCount(Listed(k)) :
              RowsEqual(tables[last.table], Listed(k).rows[r])
                 = Cardinality({p \in (1..Len(last.args.table_names)) \X (1..MaxRows) :
                                   /\ p[2] <= RowCount(Listed(p[1]))
                                   /\ Listed(p[1]).rows[p[2]] = Listed(k).rows[r]})

\* C14's case: a table of two rows listed twice, and four rows in the union.
C14_Witness ==
    /\ Unioned
    /\ last.raised = "none"
    /\ Len(last.args.table_names) = 2
    /\ last.args.table_names[1] = last.args.table_names[2]
    /\ RowCount(Listed(1)) = 2
    /\ RowCount(tables[last.table]) = 4

\* The number of rows of the listed tables before the k-th.
RowsBefore(k) == SumOfRowCounts(k - 1)

\* The cell as the union holds it in a column of the type to.
AsUnioned(x, from, to) ==
    IF to = "VARCHAR" /\ from # "VARCHAR" THEN CastVarchar(x, from) ELSE x

\* C29: a union_tables with validate=True that succeeds leaves in every row
\* of the output, under each column name, the value the row had under that
\* name in the table it comes from, whatever the order in which the listed
\* tables have their columns.
C29_ValuesUnderTheirNames ==
    Unioned /\ last.args.validate /\ last.raised = "none" =>
        LET out == tables[last.table]
        IN  \A k \in 1..Len(last.args.table_names) :
               \A r \in 1..RowCount(Listed(k)) :
                  \A c \in ColumnSet(out) :
                     /\ HasColumn(Listed(k), c)
                     /\ Cell(out, RowsBefore(k) + r, c)
                           = AsUnioned(Cell(Listed(k), r, c),
                                       ColType(Listed(k), c), ColType(out, c))

(***************************************************************************)
(* filter_data.  A condition is [column, operator, value]; the value of a  *)
(* between is the pair <<min, max>>.                                       *)
(***************************************************************************)
Condition(column, operator, value) ==
    [column |-> column, operator |-> operator, value |-> value]

SqlOr(p, q) ==
    IF p = "true" \/ q = "true" THEN "true"
    ELSE IF p = "false" /\ q = "false" THEN "false" ELSE "unknown"

\* x < y, x <= y on two numbers, unknown when one is NULL.
SqlLess(x, y) == IF IsNull(x) \/ IsNull(y) THEN "unknown" ELSE SqlBool(x.v < y.v)
SqlLessEq(x, y) == IF IsNull(x) \/ IsNull(y) THEN "unknown" ELSE SqlBool(x.v <= y.v)

\* A BETWEEN that leaves its upper bound out.
SqlBetween_UpperOpen(x, lo, hi) == SqlAnd(SqlLessEq(lo, x), SqlLess(x, hi))

\* x BETWEEN lo AND hi
SqlBetween(x, lo, hi) == SqlAnd(SqlLessEq(lo, x), SqlLessEq(x, hi))

\* s LIKE pattern: '%' stands for any run of characters, '_' for any one
\* character, every other character for itself; there is no escape character.
RECURSIVE LikeMatch(_, _)
LikeMatch(s, pattern) ==
    IF pattern = <<>> THEN s = <<>>
    ELSE IF Head(pattern) = "%"
         THEN LikeMatch(s, Tail(pattern))
                 \/ (s # <<>> /\ LikeMatch(Tail(s), pattern))
    ELSE IF Head(pattern) = "_"
         THEN s # <<>> /\ LikeMatch(Tail(s), Tail(pattern))
    ELSE s # <<>> /\ Head(s) = Head(pattern) /\ LikeMatch(Tail(s), Tail(pattern))

\* x LIKE '%value%'
SqlLike(x, pattern) ==
    IF IsNull(x) THEN "unknown" ELSE SqlBool(LikeMatch(x.v, pattern))

FilterOperators == {"between", "equals", "contains", "gt", "lt", "gte", "lte"}

\* The where_part of one condition, on the cell x of its column.
WherePart(cond, x) ==
    CASE cond.operator = "between" -> SqlBetween(x, cond.value[1], cond.value[2])
      [] cond.operator = "equals" -> SqlEq(x, cond.value)
      [] cond.operator = "contains" -> SqlLike(x, <<"%">> \o cond.value.v \o <<"%">>)
      [] cond.operator = "gt" -> SqlLess(cond.value, x)
      [] cond.operator = "lt" -> SqlLess(x, cond.value)
      [] cond.operator = "gte" -> SqlLessEq(cond.value, x)
      [] cond.operator = "lte" -> SqlLessEq(x, cond.value)

\* separator.join(where_parts) on the row r of t: the parts joined by AND, or
\* by OR.
RECURSIVE WhereClause(_, _, _, _)
WhereClause(t, r, parts, combine_mode) ==
    LET first == WherePart(Head(parts), Cell(t, r, Head(parts).column))
    IN  IF Len(parts) = 1 THEN first
        ELSE IF combine_mode = "AND"
             THEN SqlAnd(first, WhereClause(t, r, Tail(parts), combine_mode))
             ELSE SqlOr(first, WhereClause(t, r, Tail(parts), combine_mode))

\* A filter without the copy of lines 446-449: no condition is an empty AND,
\* which every row passes, or an empty OR, which none does.
FilteredRows_NoCopy(t, parts, combine_mode) ==
    IF parts = <<>>
    THEN (IF combine_mode = "AND" THEN t.rows ELSE <<>>)
    ELSE LET kept == SelectSeq([r \in 1..RowCount(t) |-> r],
                               LAMBDA r : WhereClause(t, r, parts, combine_mode) = "true")
         IN  [k \in 1..Len(kept) |-> t.rows[kept[k]]]

\* SELECT * FROM table_name [WHERE where_clause]
FilteredRows(t, parts, combine_mode) ==
    IF parts = <<>> THEN t.rows
    ELSE LET kept == SelectSeq([r \in 1..RowCount(t) |-> r],
                               LAMBDA r : WhereClause(t, r, parts, combine_mode) = "true")
         IN  [k \in 1..Len(kept) |-> t.rows[kept[k]]]

\* filter_data(table_name, conditions, output_table, combine_mode).  A
\* condition of an operator the code does not know adds no where_part; with
\* conditions and no where_part the query ends in WHERE and does not parse.
FilterData(table_name, conditions, output_table, combine_mode) ==
    LET t == tables[table_name]
        parts == SelectSeq(conditions, LAMBDA c : c.operator \in FilterOperators)
        done(raised, ret) ==
            CallOf("filter_data", table_name,
                   [conditions |-> conditions, output_table |-> output_table,
                    combine_mode |-> combine_mode], raised, ret, t)
    IN  IF conditions # <<>> /\ parts = <<>>
        THEN /\ last' = done("ParserException", 0)
             /\ UNCHANGED <<tables, source_a_loaded, source_b_loaded>>
        ELSE IF ~t.exists
        THEN /\ last' = done("CatalogException", 0)
             /\ UNCHANGED <<tables, source_a_loaded, source_b_loaded>>
        ELSE IF \E k \in 1..Len(parts) : ~HasColumn(t, parts[k].column)
        THEN /\ last' = done("BinderException", 0)
             /\ UNCHANGED <<tables, source_a_loaded, source_b_loaded>>
        ELSE LET out == MkTable(t.cols, t.types, FilteredRows(t, parts, combine_mode))
             IN  /\ tables' = [tables EXCEPT ![output_table] = out]
                 /\ last' = done("none", RowCount(out))
                 /\ UNCHANGED <<source_a_loaded, source_b_loaded>>

\* Rows to filter: <<id, amount, memo>>.
FilterCols == <<"id", "amount", "memo">>
FilterTypes == <<"BIGINT", "DOUBLE", "VARCHAR">>

FilterRows ==
    <<<<Amt(1), Amt(100), Text(<<"a", "b">>)>>,
      <<Amt(2), Amt(150), Text(<<"a", "_", "b">>)>>,
      <<Amt(3), Amt(200), Text(<<"%">>)>>,
      <<Amt(4), Amt(250), NULL>>,
      <<Amt(5), NULL, Text(<<"A">>)>>>>

\* Tables of at most MaxRows of these rows, in the order of the list.
FilterTables ==
    {MkTable(FilterCols, FilterTypes, [i \in 1..Len(q) |-> FilterRows[q[i]]]) :
        q \in {q \in SeqsUpTo(1..Len(FilterRows), MaxRows) :
                  \A i \in 1..(Len(q) - 1) : q[i] <= q[i + 1]}}

AmountConditions ==
    {Condition("amount", "between", <<Amt(100), Amt(200)>>),
     Condition("amount", "equals", Amt(150)),
     Condition("amount", "gt", Amt(100)),
     Condition("amount", "lt", Amt(200)),
     Condition("amount", "gte", Amt(200)),
     Condition("amount", "lte", Amt(100))}

MemoConditions ==
    {Condition("memo", "contains", Text(<<"a">>)),
     Condition("memo", "contains", Text(<<"_">>)),
     Condition("memo", "contains", Text(<<"%">>)),
     Condition("memo", "equals", Text(<<"a", "b">>))}

\* A condition on a column the table does not have.
AbsentColumnCondition == Condition("absent", "equals", Amt(1))

Conditions == AmountConditions \cup MemoConditions \cup {AbsentColumnCondition}

\* Condition lists: none, one condition, or a between or a gt followed by
\* another condition.
ConditionLists ==
    {<<>>} \cup {<<c>> : c \in Conditions}
       \cup {<<c, d>> : c \in {Condition("amount", "between", <<Amt(100), Amt(200)>>),
                               Condition("amount", "gt", Amt(100))},
                        d \in Conditions}

InitFilter ==
    /\ \E T \in FilterTables :
          tables = [n \in TableNames |-> IF n = "input_data" THEN T ELSE NoTable]
    /\ source_a_loaded = FALSE
    /\ source_b_loaded = FALSE
    /\ last = NoCall
    /\ UiIdle

NextFilter ==
    \E conditions \in ConditionLists, combine_mode \in {"AND", "OR"} :
        FilterData("input_data", conditions, "filtered_data", combine_mode)
           /\ UNCHANGED uiVars

SpecFilter == InitFilter /\ [][NextFilter]_vars

Filtered == last.op = "filter_data" /\ last.raised = "none"

FilterOutput == tables[last.args.output_table]

\* C15: filter_data with no condition writes a copy of the source, whatever
\* the combine mode: the same columns, the same rows, and their count returned.
C15_NoConditionCopies ==
    last.op = "filter_data" /\ last.args.conditions = <<>> =>
        /\ last.raised = "none"
        /\ FilterOutput.exists
        /\ FilterOutput.cols = last.before.cols
        /\ FilterOutput.rows = last.before.rows
        /\ last.ret = RowCount(last.before)

\* C15's case: a copy of a table with rows made under the combine mode OR.
C15_Witness ==
    /\ Filtered
    /\ last.args.conditions = <<>>
    /\ last.args.combine_mode = "OR"
    /\ RowCount(last.before) = MaxRows
    /\ FilterOutput.rows = last.before.rows

\* The row of the source satisfies the condition: its cell is there and stands
\* to the operand as the operator says, a between including both bounds.
Satisfies(row, cond) ==
    LET x == row[ColIndex(last.before, cond.column)]
    IN  /\ ~IsNull(x)
        /\ CASE cond.operator = "between" ->
                    cond.value[1].v <= x.v /\ x.v <= cond.value[2].v
             [] cond.operator = "equals" -> x = cond.value
             [] cond.operator = "gt" -> x.v > cond.value.v
             [] cond.operator = "lt" -> x.v < cond.value.v
             [] cond.operator = "gte" -> x.v >= cond.value.v
             [] cond.operator = "lte" -> x.v <= cond.value.v
             [] cond.operator = "contains" -> IsSubstring(cond.value.v, x.v)

\* The rows of the source that pass, in the source's order.
RowsPassing(Passes(_)) == SelectSeq(last.before.rows, Passes)

\* C16: filter_data with conditions of the operators between, equals, gt, lt,
\* gte and lte writes exactly the source rows that satisfy every condition
\* under AND, and exactly those that satisfy at least one under OR, the mode
\* applying to all the conditions and between including both bounds; it
\* returns their count.
C16_CombineModeAppliesToAll ==
    (/\ Filtered
     /\ last.args.conditions # <<>>
     /\ \A k \in 1..Len(last.args.conditions) :
           last.args.conditions[k].operator # "contains") =>
        LET conds == last.args.conditions
            all(row) == \A k \in 1..Len(conds) : Satisfies(row, conds[k])
            some(row) == \E k \in 1..Len(conds) : Satisfies(row, conds[k])
        IN  /\ last.args.combine_mode = "AND" => FilterOutput.rows = RowsPassing(all)
            /\ last.args.combine_mode = "OR" => FilterOutput.rows = RowsPassing(some)
            /\ last.ret = RowCount(FilterOutput)

\* C16's case: under AND, a between and a second condition; a row on the upper
\* bound of the between is kept, and a row that satisfies the between alone is
\* not.
C16_Witness ==
    /\ Filtered
    /\ last.args.combine_mode = "AND"
    /\ Len(last.args.conditions) = 2
    /\ last.args.conditions[1].operator = "between"
    /\ \E r \in 1..RowCount(FilterOutput) :
          FilterOutput.rows[r][2] = last.args.conditions[1].value[2]
    /\ \E r \in 1..RowCount(last.before) :
          /\ Satisfies(last.before.rows[r], last.args.conditions[1])
          /\ ~Satisfies(last.before.rows[r], last.args.conditions[2])

\* C17 (as claimed): a contains condition with the operand v selects exactly
\* the rows whose text contains v as a contiguous, case-sensitive substring,
\* whatever the characters of v, '%' and '_' included.
C17_ContainsIsSubstring ==
    (/\ Filtered
     /\ Len(last.args.conditions) = 1
     /\ last.args.conditions[1].operator = "contains") =>
        FilterOutput.rows
           = RowsPassing(LAMBDA row : Satisfies(row, last.args.conditions[1]))

(***************************************************************************)
(* aggregate_data.                                                         *)
(***************************************************************************)
\* SUM(...) over cells: the sum of those that are not NULL, NULL when there is
\* none.
RECURSIVE SqlSum(_)
SqlSum(cells) ==
    IF cells = <<>> THEN NULL
    ELSE LET rest == SqlSum(Tail(cells))
         IN  IF IsNull(Head(cells)) THEN rest
             ELSE IF IsNull(rest) THEN Head(cells)
             ELSE Num(Head(cells).v + rest.v)

\* The values of the grouping columns in row r.
GroupKey(t, r, group_cols) == [k \in 1..Len(group_cols) |-> Cell(t, r, group_cols[k])]

\* A grouping that leaves out the rows with a NULL in a grouping column.
RECURSIVE GroupKeys_WithoutNull(_, _, _)
GroupKeys_WithoutNull(t, n, group_cols) ==
    IF n = 0 THEN <<>>
    ELSE LET before == GroupKeys_WithoutNull(t, n - 1, group_cols)
             key == GroupKey(t, n, group_cols)
         IN  IF (\E k \in 1..Len(before) : before[k] = key)
                   \/ (\E k \in 1..Len(key) : IsNull(key[k]))
             THEN before ELSE Append(before, key)

\* GROUP BY group_cols over the first n rows: the distinct keys, a NULL being
\* a value like another, in the order of their first rows.
RECURSIVE GroupKeys(_, _, _)
GroupKeys(t, n, group_cols) ==
    IF n = 0 THEN <<>>
    ELSE LET before == GroupKeys(t, n - 1, group_cols)
             key == GroupKey(t, n, group_cols)
         IN  IF \E k \in 1..Len(before) : before[k] = key
             THEN before ELSE Append(before, key)

\* The output row of one group: the key, COUNT(*), SUM(sum_col).
GroupRow(t, key, group_cols, sum_col) ==
    LET members == SelectSeq([r \in 1..RowCount(t) |-> r],
                             LAMBDA r : GroupKey(t, r, group_cols) = key)
    IN  key \o <<Amt(Len(members)),
                 SqlSum([k \in 1..Len(members) |-> Cell(t, members[k], sum_col)])>>

\* ORDER BY total_amount DESC, the last cell of a row: the largest first, the
\* NULLs last.
ComesBefore(a, b) ==
    /\ ~IsNull(a[Len(a)])
    /\ IsNull(b[Len(b)]) \/ a[Len(a)].v > b[Len(b)].v

RECURSIVE OrderByTotalDesc(_)
OrderByTotalDesc(rows) ==
    IF rows = <<>> THEN <<>>
    ELSE LET first == CHOOSE i \in 1..Len(rows) :
                         /\ \A j \in 1..Len(rows) : ~ComesBefore(rows[j], rows[i])
                         /\ \A j \in 1..(i - 1) : ComesBefore(rows[i], rows[j])
                                                     \/ ComesBefore(rows[j], rows[i])
         IN  <<rows[first]>> \o OrderByTotalDesc(RemoveAt(rows, first))

\* CREATE OR REPLACE TABLE output_table AS SELECT group_cols, COUNT(*) as
\* record_count, SUM(sum_col) as total_amount ... GROUP BY ... ORDER BY ...
Aggregated(t, group_cols, sum_col) ==
    LET keys == GroupKeys(t, RowCount(t), group_cols)
    IN  MkTable(group_cols \o <<"record_count", "total_amount">>,
                [k \in 1..Len(group_cols) |-> ColType(t, group_cols[k])]
                   \o <<"BIGINT", ColType(t, sum_col)>>,
                OrderByTotalDesc([k \in 1..Len(keys) |->
                                     GroupRow(t, keys[k], group_cols, sum_col)]))

\* aggregate_data(table_name, group_cols, sum_col, output_table).  Without a
\* grouping column the query reads SELECT , COUNT(*) and does not parse.  The
\* grand total is a second query, run on table_name after the output table
\* has been created.
AggregateData(table_name, group_cols, sum_col, output_table) ==
    LET t == tables[table_name]
        done(raised, ret) ==
            CallOf("aggregate_data", table_name,
                   [group_cols |-> group_cols, sum_col |-> sum_col,
                    output_table |-> output_table], raised, ret, t)
    IN  IF group_cols = <<>>
        THEN /\ last' = done("ParserException", NULL)
             /\ UNCHANGED <<tables, source_a_loaded, source_b_loaded>>
        ELSE IF ~t.exists
        THEN /\ last' = done("CatalogException", NULL)
             /\ UNCHANGED <<tables, source_a_loaded, source_b_loaded>>
        ELSE IF \/ \E k \in 1..Len(group_cols) : ~HasColumn(t, group_cols[k])
                \/ ~HasColumn(t, sum_col)
                \/ ColType(t, sum_col) \notin NumericTypes
        THEN /\ last' = done("BinderException", NULL)
             /\ UNCHANGED <<tables, source_a_loaded, source_b_loaded>>
        ELSE LET out == Aggregated(t, group_cols, sum_col)
                 replaced == [tables EXCEPT ![output_table] = out]
                 \* the table the grand total query reads: the output itself
                 \* when output_table is table_name
                 read == replaced[table_name]
             IN  IF ~HasColumn(read, sum_col)
                 THEN /\ tables' = replaced
                      /\ last' = done("BinderException", NULL)
                      /\ UNCHANGED <<source_a_loaded, source_b_loaded>>
                 ELSE /\ tables' = replaced
                      /\ last' = done("none",
                                      [row_count |-> RowCount(out),
                                       grand_total |-> SqlSum(Column(read, sum_col)),
                                       total_records |-> RowCount(read)])
                      /\ UNCHANGED <<source_a_loaded, source_b_loaded>>

\* Rows to aggregate: <<region, kind, amount>>.
AggCols == <<"region", "kind", "amount">>
AggTypes == <<"VARCHAR", "VARCHAR", "DOUBLE">>

AggRows ==
    <<<<Text(<<"N">>), Text(<<"x">>), Amt(100)>>,
      <<Text(<<"N">>), Text(<<"y">>), Amt(50)>>,
      <<Text(<<"S">>), Text(<<"x">>), NULL>>,
      <<Text(<<"S">>), Text(<<"y">>), Amt(-100)>>,
      <<NULL, Text(<<"y">>), Amt(100)>>,
      <<Text(<<"N">>), Text(<<"x">>), NULL>>>>

AggTables ==
    {MkTable(AggCols, AggTypes, [i \in 1..Len(q) |-> AggRows[q[i]]]) :
        q \in {q \in SeqsUpTo(1..Len(AggRows), MaxAggRows) :
                  \A i \in 1..(Len(q) - 1) : q[i] <= q[i + 1]}}

GroupLists ==
    {<<>>, <<"region">>, <<"kind">>, <<"region", "kind">>, <<"kind", "region">>}

InitAggregate ==
    /\ \E T \in AggTables :
          tables = [n \in TableNames |-> IF n = "input_data" THEN T ELSE NoTable]
    /\ source_a_loaded = FALSE
    /\ source_b_loaded = FALSE
    /\ last = NoCall
    /\ UiIdle

NextAggregate ==
    \E group_cols \in GroupLists :
        AggregateData("input_data", group_cols, "amount", "aggregated")
           /\ UNCHANGED uiVars

SpecAggregate == InitAggregate /\ [][NextAggregate]_vars

AggregateDone == last.op = "aggregate_data" /\ last.raised = "none"

Groups == tables[last.args.output_table]

\* The cells of the groups' columns record_count and total_amount.
RecordCounts == Column(Groups, "record_count")
TotalAmounts == Column(Groups, "total_amount")

\* The sum of the numbers among cells, 0 when there is none.
RECURSIVE SumOfPresent(_)
SumOfPresent(cells) ==
    IF cells = <<>> THEN 0
    ELSE (IF IsNull(Head(cells)) THEN 0 ELSE Head(cells).v) + SumOfPresent(Tail(cells))

TrueWords == {<<"t", "r", "u", "e">>, <<"y", "e", "s">>, <<"y">>, <<"1">>, <<"t">>}
FalseWords == {<<"f", "a", "l", "s", "e">>, <<"n", "o">>, <<"n">>, <<"0">>, <<"f">>}

\* A normalization that compares the words as they are written.
CleanBooleanValue_CaseSensitive(x) ==
    IF IsNull(x) THEN NULL
    ELSE IF Trim(x.v) \in TrueWords THEN Bool(TRUE)
    ELSE IF Trim(x.v) \in FalseWords THEN Bool(FALSE)
    ELSE NULL

\* The CASE expression of clean_boolean_column's UPDATE, for one cell cast to
\* VARCHAR.
CleanBooleanValue(x) ==
    IF IsNull(x) THEN NULL
    ELSE IF Lower(Trim(x.v)) \in TrueWords THEN Bool(TRUE)
    ELSE IF Lower(Trim(x.v)) \in FalseWords THEN Bool(FALSE)
    ELSE NULL

\* What the ALTER, UPDATE, DROP and RENAME of a normalizer leave of table t,
\* raise and return, the UPDATE setting the column tmp to the cells of value:
\* a column c that is not there is found out by the UPDATE, after the ALTER
\* TABLE has added the column tmp.
ReplaceWith(t, c, tmp, type, value) ==
    LET added == AddColumnIfNotExists(t, tmp, type)
        updated == [added EXCEPT
                       !.rows = [r \in 1..RowCount(t) |->
                                    [k \in 1..Len(added.cols) |->
                                        IF added.cols[k] = tmp THEN value[r]
                                        ELSE added.rows[r][k]]]]
    IN  IF ~t.exists
        THEN [table |-> t, raised |-> "CatalogException", ret |-> 0]
        ELSE IF ~HasColumn(t, c)
        THEN [table |-> added, raised |-> "BinderException", ret |-> 0]
        ELSE [table |-> RenameColumn(DropColumn(updated, c), tmp, c),
              raised |-> "none", ret |-> RowCount(t)]

\* The cells the UPDATE of clean_boolean_column computes, row by row.
BooleanCells(t, c) ==
    [r \in 1..RowCount(t) |-> CleanBooleanValue(CastVarchar(Cell(t, r, c), ColType(t, c)))]

\* The cells the UPDATE of transform_column(..., 'text') computes.
TextCells(t, c) ==
    [r \in 1..RowCount(t) |-> CastVarchar(Cell(t, r, c), ColType(t, c))]

\* What clean_boolean_column leaves of table t and returns.
CleanBoolean(t, c) ==
    ReplaceWith(t, c, "_cleaned_bool", "BOOLEAN",
                IF t.exists /\ HasColumn(t, c) THEN BooleanCells(t, c) ELSE <<>>)

\* clean_boolean_column(table_name, column_name)
CleanBooleanColumn(table_name, column_name) ==
    LET t == tables[table_name]
        out == CleanBoolean(t, column_name)
    IN  /\ tables' = [tables EXCEPT ![table_name] = out.table]
        /\ last' = CallOf("clean_boolean_column", table_name,
                          [column |-> column_name], out.raised, out.ret, t)
        /\ UNCHANGED <<source_a_loaded, source_b_loaded>>

\* transform_column(table_name, column, target_type).  A 'number' or a 'date'
\* is the call of clean_amount_column or clean_date_column it returns, and
\* leaves that call's record.
TransformColumn(table_name, column, target_type, implicitCast) ==
    LET t == tables[table_name]
        out == IF target_type = "boolean" THEN CleanBoolean(t, column)
               ELSE IF target_type = "text"
               THEN ReplaceWith(t, column, "_temp_text", "VARCHAR",
                                IF t.exists /\ HasColumn(t, column)
                                THEN TextCells(t, column) ELSE <<>>)
               ELSE [table |-> t, raised |-> "none", ret |-> 0]
    IN  IF target_type = "number"
        THEN CleanAmountColumn(table_name, column, implicitCast)
        ELSE IF target_type = "date"
        THEN CleanDateColumn(table_name, column)
        ELSE /\ tables' = [tables EXCEPT ![table_name] = out.table]
             /\ last' = CallOf("transform_column", table_name,
                               [column |-> column, target_type |-> target_type],
                               out.raised, out.ret, t)
             /\ UNCHANGED <<source_a_loaded, source_b_loaded>>

\* Flags as files hold them: the words in several cases, with spaces around
\* them, words that are no flag, nothing.
FlagTexts ==
    {<<"t", "r", "u", "e">>, <<"T", "R", "U", "E">>, <<"Y", "e", "s">>, <<"y">>,
     <<"1">>, <<"T">>, <<"f", "a", "l", "s", "e">>, <<"N", "o">>, <<"n">>,
     <<"0">>, <<"F">>, <<" ", "y", " ">>, <<"N", "O", " ">>, <<"m", "a", "y", "b", "e">>,
     <<"1", "0">>, <<"t", "r">>, <<>>}

FlagCells == {NULL} \cup {Text(w) : w \in FlagTexts}

FlagCols == <<"id", "flag">>

\* Tables of flags: no row, one flag, or a flag followed by the flag No.
FlagTables ==
    {MkTable(FlagCols, <<"BIGINT", "VARCHAR">>, rows) :
        rows \in {<<>>}
            \cup {<<<<Amt(1), x>>>> : x \in FlagCells}
            \cup {<<<<Amt(1), x>>, <<Amt(2), Text(<<"N", "o">>)>>>> : x \in FlagCells}}

TargetTypes == {"number", "date", "boolean", "text", "other"}

InitBoolean ==
    /\ \E T \in FlagTables :
          tables = [n \in TableNames |-> IF n = "input_data" THEN T ELSE NoTable]
    /\ source_a_loaded = FALSE
    /\ source_b_loaded = FALSE
    /\ last = NoCall
    /\ UiIdle

NextBoolean ==
    \/ CleanBooleanColumn("input_data", "flag") /\ UNCHANGED uiVars
    \/ \E target_type \in TargetTypes, implicitCast \in BOOLEAN :
          TransformColumn("input_data", "flag", target_type, implicitCast)
             /\ UNCHANGED uiVars

SpecBoolean == InitBoolean /\ [][NextBoolean]_vars

\* A boolean normalization of the text column flag has just run, called as
\* clean_boolean_column or as transform_column(..., 'boolean').
BooleanCleaned ==
    /\ \/ last.op = "clean_boolean_column"
       \/ last.op = "transform_column" /\ last.args.target_type = "boolean"
    /\ last.before.exists
    /\ ColType(last.before, "flag") = "VARCHAR"

RawFlag(i) == Cell(last.before, i, "flag")
CleanedFlag(i) == Cell(tables[last.table], i, "flag")

\* The word in lower case.
InLowerCase(w) ==
    [i \in 1..Len(w) |->
        IF \E k \in 1..Len(UpperCase) : w[i] = UpperCase[k]
        THEN LowerCase[CHOOSE k \in 1..Len(UpperCase) : w[i] = UpperCase[k]]
        ELSE w[i]]

\* The word without the spaces before and after it.
Unspaced(w) ==
    LET inside == {i \in 1..Len(w) : w[i] # " "}
    IN  IF inside = {} THEN <<>>
        ELSE SubSeq(w, CHOOSE i \in inside : \A j \in inside : i <= j,
                       CHOOSE i \in inside : \A j \in inside : j <= i)

Yes == {<<"t", "r", "u", "e">>, <<"y", "e", "s">>, <<"y">>, <<"1">>, <<"t">>}
No == {<<"f", "a", "l", "s", "e">>, <<"n", "o">>, <<"n">>, <<"0">>, <<"f">>}

\* The boolean that stands for the word, compared case-insensitively.
FlagOf(w) ==
    IF InLowerCase(w) \in Yes THEN Bool(TRUE)
    ELSE IF InLowerCase(w) \in No THEN Bool(FALSE)
    ELSE NULL

\* C19 (as claimed): boolean normalization maps a value, compared
\* case-insensitively, to true if it is one of true, yes, y, 1, t, to false if
\* it is one of false, no, n, 0, f, and to NULL if it is anything else;
\* transform_column with the target type 'boolean' does the same.
C19_BooleanWords ==
    BooleanCleaned =>
        /\ last.raised = "none"
        /\ ColType(tables[last.table], "flag") = "BOOLEAN"
        /\ \A i \in 1..RowCount(last.before) :
              CleanedFlag(i) = IF IsNull(RawFlag(i)) THEN NULL ELSE FlagOf(RawFlag(i).v)

\* C19 (amended): as claimed, the value being compared without the spaces
\* before and after it: " y " is true.
C19_BooleanWordsUnspaced ==
    BooleanCleaned =>
        /\ last.raised = "none"
        /\ ColType(tables[last.table], "flag") = "BOOLEAN"
        /\ last.ret = RowCount(last.before)
        /\ \A i \in 1..RowCount(last.before) :
              CleanedFlag(i) =
                 IF IsNull(RawFlag(i)) THEN NULL ELSE FlagOf(Unspaced(RawFlag(i).v))

\* C19's case: transform_column(..., 'boolean') on the flags "Yes" and "No",
\* left true and false.
C19_Witness ==
    /\ BooleanCleaned
    /\ last.op = "transform_column"
    /\ RowCount(last.before) = 2
    /\ RawFlag(1) = Text(<<"Y", "e", "s">>) /\ CleanedFlag(1) = Bool(TRUE)
    /\ RawFlag(2) = Text(<<"N", "o">>) /\ CleanedFlag(2) = Bool(FALSE)

\* Columns a caller names: one the table has, one it has not.
NamedColumns == {"flag", "absent"}

\* A table of one flag, or of no row.
AbsentTables ==
    {MkTable(FlagCols, <<"BIGINT", "VARCHAR">>, rows) :
        rows \in {<<>>, <<<<Amt(1), Text(<<"y">>)>>>>, <<<<Amt(1), NULL>>>>}}

InitAbsent ==
    /\ \E T \in AbsentTables :
          tables = [n \in TableNames |-> IF n = "input_data" THEN T ELSE NoTable]
    /\ source_a_loaded = FALSE
    /\ source_b_loaded = FALSE
    /\ last = NoCall
    /\ UiIdle

\* The operations that take a column name, on a column that may be absent;
\* filter_data with a condition on the absent one.
NextAbsent ==
    \E column \in NamedColumns :
        \/ \E implicitCast \in BOOLEAN :
              CleanAmountColumn("input_data", column, implicitCast) /\ UNCHANGED uiVars
        \/ CleanDateColumn("input_data", column) /\ UNCHANGED uiVars
        \/ CleanBooleanColumn("input_data", column) /\ UNCHANGED uiVars
        \/ TransformColumn("input_data", column, "text", FALSE) /\ UNCHANGED uiVars
        \/ \E combine_mode \in {"AND", "OR"} :
              FilterData("input_data", <<AbsentColumnCondition>>,
                         "filtered_data", combine_mode) /\ UNCHANGED uiVars

SpecAbsent == InitAbsent /\ [][NextAbsent]_vars

\* The last call named a column its table did not have.
AbsentColumnNamed ==
    /\ last.before.exists
    /\ \/ /\ last.op \in {"clean_amount_column", "clean_date_column"}
          /\ ~HasColumn(last.before, last.column)
       \/ /\ last.op = "clean_boolean_column"
          /\ ~HasColumn(last.before, last.args.column)
       \/ /\ last.op = "transform_column"
          /\ last.args.target_type = "text"
          /\ ~HasColumn(last.before, last.args.column)
       \/ /\ last.op = "filter_data"
          /\ \E k \in 1..Len(last.args.conditions) :
                ~HasColumn(last.before, last.args.conditions[k].column)

\* C20: clean_amount_column, clean_date_column, clean_boolean_column,
\* transform_column(..., 'text') and filter_data, called with a column the
\* table does not have, raise and leave the table with exactly the columns and
\* rows it had before the call.
C20_AbsentColumnLeavesTable ==
    AbsentColumnNamed =>
        /\ last.raised # "none"
        /\ tables[last.table] = last.before

\* A normalizer has just returned: clean_amount_column, clean_date_column,
\* clean_boolean_column or transform_column(..., 'text').
NormalizerReturned ==
    /\ last.raised = "none"
    /\ \/ last.op \in {"clean_amount_column", "clean_date_column",
                       "clean_boolean_column"}
       \/ last.op = "transform_column" /\ last.args.target_type = "text"

\* The column the normalizer was called on.
NormalizedColumn ==
    IF last.op \in {"clean_amount_column", "clean_date_column"}
    THEN last.column ELSE last.args.column

\* C28: a normalizer that returns leaves its table with the row count and the
\* set of column names it had, and every value of every column but the
\* cleaned one as it was; the other tables are as they were.
C28_ShapePreserved ==
    NormalizerReturned =>
        LET before == last.before
            after == tables[last.table]
        IN  /\ RowCount(after) = RowCount(before)
            /\ ColumnSet(after) = ColumnSet(before)
            /\ \A c \in ColumnSet(before) \ {NormalizedColumn} :
                  /\ HasColumn(after, c)
                  /\ \A r \in 1..RowCount(before) : Cell(after, r, c) = Cell(before, r, c)

(***************************************************************************)
(* select_columns, and the replacement of output tables.                   *)
(***************************************************************************)
\* SELECT "c1", "c2", ... FROM t
Selected(t, columns) ==
    MkTable(columns,
            [k \in 1..Len(columns) |-> ColType(t, columns[k])],
            [r \in 1..RowCount(t) |->
                [k \in 1..Len(columns) |-> Cell(t, r, columns[k])]])

\* select_columns(table_name, columns, output_table).  Without a column the
\* query reads SELECT  FROM and does not parse.
SelectColumns(table_name, columns, output_table) ==
    LET t == tables[table_name]
        done(raised, ret) ==
            CallOf("select_columns", table_name,
                   [columns |-> columns, output_table |-> output_table],
                   raised, ret, t)
    IN  IF columns = <<>>
        THEN /\ last' = done("ParserException", 0)
             /\ UNCHANGED <<tables, source_a_loaded, source_b_loaded>>
        ELSE IF ~t.exists
        THEN /\ last' = done("CatalogException", 0)
             /\ UNCHANGED <<tables, source_a_loaded, source_b_loaded>>
        ELSE IF \E k \in 1..Len(columns) : ~HasColumn(t, columns[k])
        THEN /\ last' = done("BinderException", 0)
             /\ UNCHANGED <<tables, source_a_loaded, source_b_loaded>>
        ELSE /\ tables' = [tables EXCEPT ![output_table] = Selected(t, columns)]
             /\ last' = done("none", RowCount(t))
             /\ UNCHANGED <<source_a_loaded, source_b_loaded>>

\* A table of the output name left by an earlier operation.
OldVersion == MkTable(<<"old">>, <<"VARCHAR">>, <<<<Text(<<"o">>)>>>>)

ReplaceInput == MkTable(AggCols, AggTypes, <<AggRows[1], AggRows[2]>>)

ReplaceFile == MkTable(AggCols, AggTypes, <<AggRows[4]>>)

\* Output names: another table, and the table the operation reads.
OutputNames == {"aggregated", "input_data"}

ReplaceUnions ==
    {<<>>, <<"input_data">>, <<"input_data", "input_data">>,
     <<"input_data", "source_a">>}

ReplaceConditions ==
    {<<>>, <<Condition("amount", "gt", Amt(50))>>, <<AbsentColumnCondition>>}

ReplaceGroups == {<<>>, <<"region">>, <<"kind">>, <<"absent">>}

ReplaceColumns == {<<>>, <<"region">>, <<"amount", "region">>, <<"absent">>}

InitReplace ==
    /\ \E old \in {NoTable, OldVersion} :
          tables = [n \in TableNames |->
                       IF n = "input_data" THEN ReplaceInput
                       ELSE IF n = "aggregated" THEN old ELSE NoTable]
    /\ source_a_loaded = FALSE
    /\ source_b_loaded = FALSE
    /\ last = NoCall
    /\ UiIdle

\* The table-producing operations, on an output name that may hold a table.
NextReplace ==
    \/ \E output_table \in OutputNames, file \in {NoTable, ReplaceFile} :
          LoadCsv(output_table, file) /\ UNCHANGED uiVars
    \/ \E table_names \in ReplaceUnions, validate \in BOOLEAN :
          UnionTables(table_names, "aggregated", validate) /\ UNCHANGED uiVars
    \/ \E output_table \in OutputNames, conditions \in ReplaceConditions :
          FilterData("input_data", conditions, output_table, "AND") /\ UNCHANGED uiVars
    \/ \E output_table \in OutputNames, group_cols \in ReplaceGroups :
          AggregateData("input_data", group_cols, "amount", output_table)
             /\ UNCHANGED uiVars
    \/ \E output_table \in OutputNames, columns \in ReplaceColumns :
          SelectColumns("input_data", columns, output_table) /\ UNCHANGED uiVars

SpecReplace == InitReplace /\ [][NextReplace]_vars

\* The output table of a call.
OutputOf(call) ==
    IF call.op \in {"load_csv", "union_tables"} THEN call.table
    ELSE call.args.output_table

TableProduced(call) ==
    call.op \in {"load_csv", "union_tables", "filter_data", "aggregate_data",
                 "select_columns"}

\* C21: a table-producing operation that fails leaves the table of its
\* output name with the columns and rows it had, and one that succeeds leaves
\* under that name a table that holds nothing of the previous version: every
\* table-producing operation that raises leaves every table as it was.
C21_OutputReplacedOrIntact ==
    [][TableProduced(last') /\ last'.raised # "none"
          => tables'[OutputOf(last')] = tables[OutputOf(last')]]_vars

(***************************************************************************)
(* Exporter (exporter.py).                                                 *)
(***************************************************************************)
\* The five result tables in the order export_all lists them.
ResultTables ==
    <<"exact_matches", "matches_with_date_note", "amount_variances",
      "missing_in_b", "missing_in_a">>

\* Exporter.TABLE_FILE_NAMES
TABLE_FILE_NAMES ==
    [exact_matches |-> "exact_matches.csv",
     matches_with_date_note |-> "matches_with_date_note.csv",
     amount_variances |-> "amount_variances.csv",
     missing_in_b |-> "missing_in_source_b.csv",
     missing_in_a |-> "missing_in_source_a.csv"]

\* self.TABLE_FILE_NAMES.get(table_name, f"{table_name}.csv")
FileName(table_name) ==
    IF table_name \in DOMAIN TABLE_FILE_NAMES THEN TABLE_FILE_NAMES[table_name]
    ELSE <<table_name, ".csv">>

\* os.path.join(output_dir, file_name)
PathJoin(output_dir, file_name) == <<output_dir, file_name>>

\* The disk d with table t written to path.
Written(d, path, t) ==
    [q \in DOMAIN d \cup {path} |-> IF q = path THEN t ELSE d[q]]

\* Exporter.export_table(table_name, output_dir) on the disk d, the files named
\* in unwritable being files that cannot be written: what it raises, the path
\* it returns, the disk it leaves.  An empty output_dir cannot be created.
ExportTable(table_name, output_dir, unwritable, d) ==
    LET file_name == FileName(table_name)
        output_path == PathJoin(output_dir, file_name)
    IN  IF output_dir = ""
        THEN [raised |-> "FileNotFoundError", path |-> <<>>, disk |-> d]
        ELSE IF ~tables[table_name].exists
        THEN [raised |-> "CatalogException", path |-> <<>>, disk |-> d]
        ELSE IF file_name \in unwritable
        THEN [raised |-> "IOException", path |-> <<>>, disk |-> d]
        ELSE [raised |-> "none", path |-> output_path,
              disk |-> Written(d, output_path, tables[table_name])]

\* A loop that gives up at the first table it cannot export.
RECURSIVE ExportEach_UntilFailure(_, _, _, _)
ExportEach_UntilFailure(names, output_dir, unwritable, out) ==
    IF names = <<>> THEN out
    ELSE LET one == ExportTable(Head(names), output_dir, unwritable, out.disk)
         IN  IF one.raised = "none"
             THEN ExportEach_UntilFailure(Tail(names), output_dir, unwritable,
                     [exported |-> Written(out.exported, Head(names), one.path),
                      attempted |-> Append(out.attempted, Head(names)),
                      disk |-> one.disk])
             ELSE [out EXCEPT !.attempted = Append(out.attempted, Head(names))]

\* The loop of export_all over the tables names: the mapping exported, the
\* tables it has attempted, the disk; an exception of export_table is printed
\* and the loop goes on.
RECURSIVE ExportEach(_, _, _, _)
ExportEach(names, output_dir, unwritable, out) ==
    IF names = <<>> THEN out
    ELSE LET one == ExportTable(Head(names), output_dir, unwritable, out.disk)
         IN  ExportEach(Tail(names), output_dir, unwritable,
                [exported |-> IF one.raised = "none"
                              THEN Written(out.exported, Head(names), one.path)
                              ELSE out.exported,
                 attempted |-> Append(out.attempted, Head(names)),
                 disk |-> one.disk])

\* A ReconResult with the default table names and the output directory of
\* its config.
ReconResult(output_dir) ==
    [config |-> [output_dir |-> output_dir],
     exact_matches_table |-> "exact_matches",
     date_note_table |-> "matches_with_date_note",
     amount_variance_table |-> "amount_variances",
     missing_in_b_table |-> "missing_in_b",
     missing_in_a_table |-> "missing_in_a"]

\* Exporter.export_all(result); os.makedirs(output_dir) comes before the loop
\* and outside its try.
ExportAll(result, unwritable) ==
    LET output_dir == result.config.output_dir
        names == <<result.exact_matches_table, result.date_note_table,
                   result.amount_variance_table, result.missing_in_b_table,
                   result.missing_in_a_table>>
        out == ExportEach(names, output_dir, unwritable,
                          [exported |-> <<>>, attempted |-> <<>>, disk |-> disk])
        done(raised, ret) ==
            CallOf("export_all", "",
                   [output_dir |-> output_dir, unwritable |-> unwritable],
                   raised, ret, NoTable)
    IN  IF output_dir = ""
        THEN /\ last' = done("FileNotFoundError",
                             [exported |-> <<>>, attempted |-> <<>>])
             /\ UNCHANGED <<tables, source_a_loaded, source_b_loaded, disk>>
        ELSE /\ disk' = out.disk
             /\ last' = done("none", [exported |-> out.exported,
                                      attempted |-> out.attempted])
             /\ UNCHANGED <<tables, source_a_loaded, source_b_loaded>>

\* A result table as reconcile leaves it.
ExportRows == MkTable(<<"id">>, <<"BIGINT">>, <<<<Amt(1)>>>>)

\* Engines to export from: with the five result tables, with none, without
\* one or with one only.
ExportEngines ==
    {ResultNames, {}, ResultNames \ {"matches_with_date_note"}, {"amount_variances"}}

InitExport ==
    /\ \E present \in ExportEngines :
          tables = [n \in TableNames |-> IF n \in present THEN ExportRows ELSE NoTable]
    /\ source_a_loaded = FALSE
    /\ source_b_loaded = FALSE
    /\ last = NoCall
    /\ UiIdle

FileNames == {TABLE_FILE_NAMES[n] : n \in DOMAIN TABLE_FILE_NAMES}

NextExport ==
    \E output_dir \in {"out", ""}, unwritable \in SUBSET FileNames :
        ExportAll(ReconResult(output_dir), unwritable)
           /\ UNCHANGED <<app, tool, controller>>

SpecExport == InitExport /\ [][NextExport]_vars

\* export_all has just run on an output directory that can be created.
ExportedAll == last.op = "export_all" /\ last.args.output_dir # ""

\* The tables export_table can export: those the engine has, whose files can
\* be written.
Exportable ==
    {n \in ResultNames :
        tables[n].exists /\ TABLE_FILE_NAMES[n] \notin last.args.unwritable}

\* C23: export_all attempts the five result tables in their order whatever
\* fails, raises for no table that cannot be exported, and returns a mapping
\* whose keys are the tables exported, each to the path of its file, which
\* holds the table.
C23_ExportedPerTable ==
    ExportedAll =>
        /\ last.raised = "none"
        /\ last.ret.attempted = ResultTables
        /\ DOMAIN last.ret.exported = Exportable
        /\ \A n \in Exportable :
              /\ last.ret.exported[n] = <<last.args.output_dir, TABLE_FILE_NAMES[n]>>
              /\ last.ret.exported[n] \in DOMAIN disk
              /\ disk[last.ret.exported[n]] = tables[n]

\* C23's case: the second table could not be exported, for the engine has
\* none, nor the third, whose file cannot be written, and the other three
\* are the keys of the mapping.
C23_Witness ==
    /\ ExportedAll
    /\ ~tables["matches_with_date_note"].exists
    /\ last.args.unwritable = {"amount_variances.csv"}
    /\ DOMAIN last.ret.exported = {"exact_matches", "missing_in_b", "missing_in_a"}

(***************************************************************************)
(* BaseTool.run_threaded (base_tool.py).                                   *)
(***************************************************************************)
\* What target_func of call c returns, and the exception it raises.
ResultOf(c) == <<"result", c>>
ExceptionOf(c) == <<"exception", c>>

\* A worker that schedules _on_thread_complete however target_func ended.
Scheduled_AlwaysComplete(c, outcome) ==
    [handler |-> "_on_thread_complete", call |-> c,
     arg |-> IF outcome = "returned" THEN ResultOf(c) ELSE ExceptionOf(c)]

\* The callback worker hands to self.after(0, ...): _on_thread_complete with
\* the result, or _on_thread_error with the exception.
Scheduled(c, outcome) ==
    IF outcome = "returned"
    THEN [handler |-> "_on_thread_complete", call |-> c, arg |-> ResultOf(c)]
    ELSE [handler |-> "_on_thread_error", call |-> c, arg |-> ExceptionOf(c)]

\* run_threaded(target_func, on_complete, on_error), on the UI thread: the
\* progress indicator is shown and the worker thread started.
RunThreaded(on_complete, on_error) ==
    LET c == tool.started + 1
    IN  /\ tool.started < MaxThreads
        /\ tool' = [tool EXCEPT
                       !.progress = "shown",
                       !.started = c,
                       !.thread[c] = "running",
                       !.callbacks[c] = [on_complete |-> on_complete,
                                         on_error |-> on_error]]
        /\ UNCHANGED <<engineVars, app, controller, disk>>

\* worker, on its thread: target_func returns or raises, the callback is
\* scheduled and the thread ends.
Worker(c, outcome) ==
    /\ tool.thread[c] = "running"
    /\ tool' = [tool EXCEPT
                   !.thread[c] = outcome,
                   !.after = Append(@, Scheduled(c, outcome))]
    /\ UNCHANGED <<engineVars, app, controller, disk>>

\* What _on_thread_complete and _on_thread_error call after _hide_progress.
Called(callback, callbacks) ==
    IF callback.handler = "_on_thread_complete"
    THEN (IF callbacks.on_complete THEN "on_complete" ELSE "nothing")
    ELSE (IF callbacks.on_error THEN "on_error" ELSE "messagebox.showerror")

\* The main loop runs the first scheduled callback: _on_thread_complete or
\* _on_thread_error.
ToolMainLoop ==
    /\ tool.after # <<>>
    /\ LET callback == Head(tool.after)
           c == callback.call
       IN  tool' = [tool EXCEPT
                       !.after = Tail(@),
                       !.progress = "hidden",
                       !.handled[c] =
                           Append(@, [handler |-> callback.handler,
                                      called |-> Called(callback, tool.callbacks[c]),
                                      arg |-> callback.arg,
                                      progress |-> "hidden"])]
    /\ UNCHANGED <<engineVars, app, controller, disk>>

InitThreaded ==
    /\ EngineInit

NextThreaded ==
    \/ \E on_complete \in BOOLEAN, on_error \in BOOLEAN :
          RunThreaded(on_complete, on_error)
    \/ \E c \in 1..MaxThreads, outcome \in {"returned", "raised"} : Worker(c, outcome)
    \/ ToolMainLoop

\* Every worker thread runs on until target_func has ended, and the main loop
\* until no callback is scheduled.
SpecThreaded ==
    /\ InitThreaded
    /\ [][NextThreaded]_vars
    /\ \A c \in 1..MaxThreads :
          WF_vars(\E outcome \in {"returned", "raised"} : Worker(c, outcome))
    /\ WF_vars(ToolMainLoop)

\* The handler that has run for call c is the one its outcome asks for.
RightHandler(c) ==
    LET h == tool.handled[c][1]
        given == tool.callbacks[c]
    IN  /\ h.progress = "hidden"
        /\ tool.thread[c] = "returned" =>
              /\ h.handler = "_on_thread_complete"
              /\ h.arg = ResultOf(c)
              /\ h.called = IF given.on_complete THEN "on_complete" ELSE "nothing"
        /\ tool.thread[c] = "raised" =>
              /\ h.handler = "_on_thread_error"
              /\ h.arg = ExceptionOf(c)
              /\ h.called = IF given.on_error THEN "on_error"
                            ELSE "messagebox.showerror"

Clickable_Always(a) == TRUE

\* The Run button runs its command: a disabled button does not.
Clickable(a) == a.run_btn = "normal"

\* _run_reconciliation, on the UI thread: with an input missing or a tolerance
\* that is no number it warns and returns; otherwise it disables the Run button
\* and starts the thread of process.
RunReconciliation(valid) ==
    LET r == app.runs + 1
    IN  /\ Clickable(app)
        /\ app.runs < MaxRuns
        /\ app' = IF ~valid THEN app
                  ELSE [app EXCEPT !.run_btn = "disabled",
                                   !.runs = r,
                                   !.process[r] = "engine"]
        /\ UNCHANGED <<engineVars, tool, controller, disk>>

\* process, on the worker thread of run r: self.engine = ReconEngine()
ProcessEngine(r) ==
    /\ app.process[r] = "engine"
    /\ app' = [app EXCEPT !.engine = r, !.holds[r] = 0, !.process[r] = "load"]
    /\ UNCHANGED <<engineVars, tool, controller, disk>>

\* process: the two load_csv and the cleaning of the amount and date columns,
\* which end well or raise.
ProcessLoad(r, raises) ==
    /\ app.process[r] = "load"
    /\ app' = [app EXCEPT !.process[r] = IF raises THEN "except" ELSE "reconcile"]
    /\ UNCHANGED <<engineVars, tool, controller, disk>>

\* process: self.engine.reconcile(config), which leaves the five result tables
\* of the run in the engine or raises; the config is made of the fields as they
\* are.
ProcessReconcile(r, raises) ==
    /\ app.process[r] = "reconcile"
    /\ app' = IF raises THEN [app EXCEPT !.process[r] = "except"]
              ELSE [app EXCEPT !.holds[app.engine] = r,
                               !.config[r] = app.output_dir_var,
                               !.process[r] = "result"]
    /\ UNCHANGED <<engineVars, tool, controller, disk>>

\* process: self.result = the ReconResult returned, and _update_results is
\* scheduled.
ProcessResult(r) ==
    /\ app.process[r] = "result"
    /\ app' = [app EXCEPT !.result = [run |-> r, output_dir |-> app.config[r]],
                          !.after = Append(@, "_update_results"),
                          !.process[r] = "finally"]
    /\ UNCHANGED <<engineVars, tool, controller, disk>>

\* process, except Exception: the error dialog is scheduled.
ProcessExcept(r) ==
    /\ app.process[r] = "except"
    /\ app' = [app EXCEPT !.after = Append(@, "showerror"),
                          !.process[r] = "finally"]
    /\ UNCHANGED <<engineVars, tool, controller, disk>>

\* process, finally: the enabling of the Run button is scheduled, and the
\* thread ends.
ProcessFinally(r) ==
    /\ app.process[r] = "finally"
    /\ app' = [app EXCEPT !.after = Append(@, "enable"),
                          !.process[r] = "ended"]
    /\ UNCHANGED <<engineVars, tool, controller, disk>>

\* One step of the worker thread of run r.
Process(r) ==
    \/ ProcessEngine(r)
    \/ \E raises \in BOOLEAN : ProcessLoad(r, raises)
    \/ \E raises \in BOOLEAN : ProcessReconcile(r, raises)
    \/ ProcessResult(r)
    \/ ProcessExcept(r)
    \/ ProcessFinally(r)

\* The main loop runs the first scheduled callback: _update_results, which
\* shows self.result if there is one, the error dialog, or the enabling of
\* the Run button.
AppMainLoop ==
    /\ app.after # <<>>
    /\ app' = [app EXCEPT
                  !.after = Tail(@),
                  !.shown = IF Head(app.after) = "_update_results"
                            THEN app.result.run ELSE @,
                  !.run_btn = IF Head(app.after) = "enable" THEN "normal" ELSE @]
    /\ UNCHANGED <<engineVars, tool, controller, disk>>

\* The files an export writes from an engine that holds the result tables of
\* a run: those of the tables names.
ExportedFiles(d, output_dir, names, run) ==
    [q \in DOMAIN d \cup {PathJoin(output_dir, FileName(n)) : n \in names} |->
        IF \E n \in names : q = PathJoin(output_dir, FileName(n))
        THEN [run |-> run] ELSE d[q]]

\* _export_all and _export_current (of the tab of the table current), on the
\* UI thread; chosen is the directory the user chooses when asked, "" when the
\* user cancels.  Without a result or an engine they warn and return.  An
\* engine that does not hold a table exports no file of it.
Export(kind, current, chosen) ==
    LET asked == app.output_dir_var = ""
        output_dir == IF asked THEN chosen ELSE app.output_dir_var
        names == IF kind = "_export_all" THEN ResultNames ELSE {current}
        held == app.holds[app.engine]
    IN  /\ IF app.result.run = 0 \/ app.engine = 0 \/ output_dir = ""
           THEN UNCHANGED <<app, disk>>
           ELSE /\ app' = [app EXCEPT
                              !.output_dir_var = output_dir,
                              !.result.output_dir = IF asked THEN output_dir ELSE @,
                              !.exported = [kind |-> kind, engine |-> app.engine,
                                            holds |-> held,
                                            result |-> app.result.run,
                                            shown |-> app.shown]]
                /\ disk' = IF held = 0 THEN disk
                           ELSE ExportedFiles(disk, output_dir, names, held)
        /\ UNCHANGED <<engineVars, tool, controller>>

\* A ReconApp whose output directory field the user has filled or left empty.
InitApp ==
    /\ tables = [n \in TableNames |-> NoTable]
    /\ source_a_loaded = FALSE
    /\ source_b_loaded = FALSE
    /\ last = NoCall
    /\ \E output_dir \in {"", "out"} :
          app = [ReconAppInit EXCEPT !.output_dir_var = output_dir]
    /\ tool = BaseToolInit
    /\ controller = ControllerInit
    /\ disk = <<>>

NextApp ==
    \/ \E valid \in BOOLEAN : RunReconciliation(valid)
    \/ \E r \in 1..MaxRuns : Process(r)
    \/ AppMainLoop
    \/ \E kind \in {"_export_all", "_export_current"},
          current \in {"exact_matches", "missing_in_a"}, chosen \in {"", "out"} :
          Export(kind, current, chosen)

SpecApp == InitApp /\ [][NextApp]_vars

\* Every worker thread runs on to its end, and the main loop until nothing is
\* scheduled.
SpecAppFair ==
    /\ SpecApp
    /\ \A r \in 1..MaxRuns : WF_vars(Process(r))
    /\ WF_vars(AppMainLoop)

\* The runs whose worker thread has started and not ended.
ActiveRuns == {r \in 1..MaxRuns : app.process[r] \notin {"unstarted", "ended"}}

\* C22: the config stored in a ReconResult is changed by no later operation:
\* as long as self.result is the result of the same run, its config holds
\* what it held.
C22_StoredConfigUnchanged ==
    [][app.result.run # 0 /\ app'.result.run = app.result.run
          => app'.result = app.result]_vars

\* C25: the Run button is disabled as long as a reconciliation worker is
\* active, at most one worker is active at any time, and after every worker
\* that was started, whether it ends well or raises, the button is enabled
\* again.
C25_OneWorkerButtonDisabled ==
    /\ [](ActiveRuns # {} => app.run_btn = "disabled")
    /\ [](Cardinality(ActiveRuns) <= 1)
    /\ \A r \in 1..MaxRuns :
          (app.process[r] # "unstarted")
             ~> (app.process[r] = "ended" /\ app.run_btn = "normal")

\* C25's case: the worker of the first run has raised and ended, the button
\* was enabled again and the second run started: its worker is active and the
\* button disabled.
C25_Witness ==
    /\ app.process[1] = "ended"
    /\ app.result.run = 0
    /\ app.process[2] = "reconcile"
    /\ app.run_btn = "disabled"

\* C30: an export reads from an engine that holds the five result tables of
\* the run whose result is shown.
C30_ExportReadsShownRun ==
    app.exported.kind # "none" /\ app.exported.shown # 0 =>
        app.exported.holds = app.exported.shown

(***************************************************************************)
(* DataToolkitApp (main.py): the controller and its shared engine.         *)
(***************************************************************************)
\* The tools that are frames of the controller with the shared engine.
ToolClasses == {"clean", "aggregate", "analyze"}

\* The tool identifiers show_tool is called with.
ToolNames == ToolClasses \cup {"reconcile", "pastel", "unknown"}

\* A reset that keeps the engine.
ResetEngine_Keeping(c) == c

\* reset_engine: the engine, if there is one, is closed and discarded.
ResetEngine(c) ==
    IF c.engine = 0 THEN c
    ELSE [c EXCEPT !.open = @ \ {c.engine}, !.engine = 0, !.loaded = {}]

\* The engine property: the engine is created when there is none.
Engine(c) ==
    IF c.engine # 0 THEN c
    ELSE [c EXCEPT !.engine = c.created + 1, !.created = c.created + 1,
                   !.open = @ \cup {c.created + 1}]

\* show_home: the current frame is destroyed and the home screen shown; the
\* engine stays.
ShowHomeOf(c) == [c EXCEPT !.current_frame = "home"]

\* show_home, called by the Back button of a tool or the closing of the
\* reconciliation window.
ShowHome ==
    /\ controller.current_frame \in ToolClasses \cup {"reconcile"}
    /\ controller' = ShowHomeOf(controller)
    /\ UNCHANGED <<engineVars, app, tool, disk>>

\* show_tool, called by a button of the home screen: the frame is cleared and
\* the engine reset; then the reconciliation window is opened, or the tool
\* frame created (the home screen comes back when its constructor raises), or
\* a message shown and the home screen with it.
ShowTool(tool_name, raises) ==
    LET reset == ResetEngine(controller)
    IN  /\ controller.current_frame = "home"
        /\ controller.frame < MaxFrames
        /\ controller' =
              IF tool_name = "reconcile"
              THEN [reset EXCEPT !.current_frame = "reconcile"]
              ELSE IF tool_name \in ToolClasses /\ ~raises
              THEN [reset EXCEPT !.current_frame = tool_name,
                                 !.frame = @ + 1,
                                 !.before = reset.created]
              ELSE ShowHomeOf(reset)
        /\ UNCHANGED <<engineVars, app, tool, disk>>

\* The current tool loads a file into self.engine, the engine of the
\* controller (_on_file_selected); the load ends well or raises.
ToolLoadCsv(raises) ==
    LET c == Engine(controller)
    IN  /\ controller.current_frame \in ToolClasses
        /\ c.created <= MaxFrames
        /\ controller' = IF raises THEN c
                         ELSE [c EXCEPT !.loaded = @ \cup {c.frame}]
        /\ UNCHANGED <<engineVars, app, tool, disk>>

\* The worker thread of a tool frame, the current one or an earlier one, uses
\* self.engine: its statements read the tables of its own processing, which
\* an engine created since lacks, and load no file.
ToolProcess(frame) ==
    /\ frame \in 1..controller.frame
    /\ controller.current_frame # "closed"
    /\ Engine(controller).created <= MaxFrames
    /\ controller' = Engine(controller)
    /\ UNCHANGED <<engineVars, app, tool, disk>>

\* _on_close: the engine is reset and the window destroyed.
OnClose ==
    /\ controller.current_frame # "closed"
    /\ controller' = [ResetEngine(controller) EXCEPT !.current_frame = "closed"]
    /\ UNCHANGED <<engineVars, app, tool, disk>>

InitController == EngineInit

NextController ==
    \/ ShowHome
    \/ \E tool_name \in ToolNames, raises \in BOOLEAN : ShowTool(tool_name, raises)
    \/ \E raises \in BOOLEAN : ToolLoadCsv(raises)
    \/ \E frame \in 1..MaxFrames : ToolProcess(frame)
    \/ OnClose

SpecController == InitController /\ [][NextController]_vars

=============================================================================
